---- MODULE Spec2Model ----
(***************************************************************************)
(* BMS telemetry acquisition and distribution pipeline (bms-monitor/app).  *)
(*                                                                         *)
(* Units.  The code works with floats; the model keeps exact integers:     *)
(*   total_voltage, current, soc, temperatures[i]  in tenths               *)
(*   cells[i]                                       in thousandths         *)
(*   temperature (the average of 1..4 sensors)      in 1/120 degree C      *)
(*   power                                          in hundredths          *)
(* Bytes are 0..255, frames are sequences of bytes, a dict is a function   *)
(* whose DOMAIN is the set of keys present.                                *)
(***************************************************************************)
EXTENDS Integers, Sequences, FiniteSets, TLC

VARIABLES
    \* ---- BMSService (services/bms_service.py)
    connected,          \* self.connected
    link_up,            \* the BLE link itself (client.is_connected)
    responses,          \* self.responses, the notification buffer
    read_count,         \* self.read_count
    error_count,        \* self.error_count
    last_read_time,     \* self.last_read_time (tick number, 0 = None)
    \* ---- bms_monitoring_task (main.py) and the read it is suspended in
    pc,                 \* where the monitoring task is suspended
    stage,              \* which command the session is sending / waiting for
    cmd,                \* the command last written
    data,               \* the record under construction / returned
    success,            \* the local flag of read_bms_data / read_individual_registers
    tick,               \* number of reads started; the record timestamp
    alerts,             \* alerts still to be fanned out in this tick
    \* ---- history of the current tick (observations, not program state)
    sent,               \* stages whose command was written, in order
    obs,                \* what happened in this tick
    \* ---- sinks
    db_connected, cache_connected, mqtt_connected,
    store,              \* battery_data / battery_alerts rows, in append order
    cache_latest,       \* cache key latest:realtime (<<>> = absent)
    store_skipped,      \* records whose store append failed or was skipped
    broker,             \* published messages not yet handed to the listener
    published,          \* every message a publish call sent successfully
    lis_pc,             \* the listener task (start_listening)
    lis_msg,            \* the message the listener is handling
    mon_msg,            \* the message the monitoring task handles directly
    teardown,           \* position of the lifespan teardown
    \* ---- WebSocketManager (api/websocket.py)
    active_connections, \* list of sockets
    client_info,        \* keys of the client_info dict
    ep,                 \* websocket_endpoint position per socket
    closed,             \* socket closed by the peer
    recv,               \* per socket: the messages sent to it successfully
    rounds,             \* per caller: the broadcast / heartbeat round in progress
    refused,            \* per socket: messages whose send to it failed (observation)
    next_msg,           \* id of the next hub message
    \* ---- BMSService.connect (services/bms_service.py), stepwise
    conn_pc,            \* where a call of connect() is suspended ("idle": no call)
    attempt,            \* the loop variable of connect()
    client,             \* self.client: the BleakClient objects are numbered (0 = None)
    linked,             \* is_connected: holds self.client if it is connected
    notifying,          \* holds self.client if start_notify has succeeded on it
    conn_ret,           \* what the last call of connect() returned ("none" while running)
    conn_obs,           \* what the current call of connect() has done (observation)
    \* ---- battery_alerts.acknowledged and the query interface (api/routes.py)
    acked,              \* ids of the alert rows whose acknowledged column is true
    cache_status,       \* cache key latest:status (<<>> = absent)
    cache_history,      \* the timestamps t with a cache key history:<t>
    diag_pc,            \* diag_soc_candidates: "wait" inside its send_command
    reply,              \* the reply to the last request / store operation
    \* ---- the pure functions, applied on their own
    call,               \* the last application: function, argument, result
    \* ---- send_command on its own (services/bms_service.py)
    send_pc,            \* "idle", "write" (in write_gatt_char) or "sleep"
    returned,           \* the lists the calls of send_command returned, in order
    window              \* notifications since the running call cleared the buffer (observation)

bmsVars  == <<connected, link_up, responses, read_count, error_count, last_read_time>>
monVars  == <<pc, stage, cmd, data, success, tick, alerts, sent, obs>>
sinkVars == <<db_connected, cache_connected, mqtt_connected, store, cache_latest,
              store_skipped, broker, published, lis_pc, lis_msg, mon_msg, teardown>>
hubVars  == <<active_connections, client_info, ep, closed, recv, refused, rounds,
              next_msg>>
connVars == <<conn_pc, attempt, client, linked, notifying, conn_ret, conn_obs>>
apiVars  == <<acked, cache_status, cache_history, diag_pc, reply>>
callVars == <<call>>
sendVars == <<send_pc, returned, window>>
vars     == <<bmsVars, monVars, sinkVars, hubVars, connVars, apiVars, callVars, sendVars>>

\* ------------------------------------------------------------------ bounds
MaxTicks     == 1   \* reads started by the monitoring task
MaxResponses == 2   \* notifications buffered during one send
MaxSockets   == 2   \* websocket clients over the run
MaxRounds    == 2   \* hub rounds (broadcast + heartbeat) over the run
MaxRows      == 2   \* rows in battery_alerts
MaxCalls     == 2   \* calls of connect() over the run
MaxCells     == 2   \* cells in a record given to check_alerts
MaxRaw       == 60000  \* raw values of the current register that are decoded
MaxData      == 1   \* rows in battery_data
MaxSends     == 2   \* calls of send_command on its own

\* ------------------------------------------------------- program constants
DeviceAddr   == 210     \* 0xD2
RegTemp      == 32      \* 0x0020
RegVoltage   == 40      \* 0x0028
RegCurrent   == 41      \* 0x0029
RegSoc       == 44      \* 0x002C
BulkCount    == 62      \* 0x003E
MinRawHex    == 160
ZeroCurrent  == 30000

\* ---------------------------------------------------------- dict helpers
Put(d, k, v) == [x \in (DOMAIN d) \cup {k} |-> IF x = k THEN v ELSE d[x]]
Has(d, k)    == k \in DOMAIN d
Merge(d, e)  == [x \in (DOMAIN d) \cup (DOMAIN e) |-> IF x \in DOMAIN e THEN e[x] ELSE d[x]]
EmptyDict    == [x \in {} |-> 0]

\* Python slicing s[a:b] on a 0-based sequence (clamped, never raises).
Slice(s, a, b) ==
    LET hi == IF b < Len(s) THEN b ELSE Len(s)
    IN  IF a >= hi THEN <<>> ELSE SubSeq(s, a + 1, hi)

\* struct.unpack('>H', two bytes)
U16(s, pos) == s[pos + 1] * 256 + s[pos + 2]

RECURSIVE SumSeq(_)
SumSeq(s) == IF s = <<>> THEN 0 ELSE Head(s) + SumSeq(Tail(s))

\* ------------------------------------------------------------ frame codec
\* calculate_modbus_crc16.  The loops are local functions, so that each
\* intermediate crc is a value before the next step uses it.

\* a ^ b on bytes
Xor8(a, b) ==
    LET xor[x \in Nat, y \in Nat] ==
            IF x = 0 /\ y = 0 THEN 0
            ELSE (((x % 2) + (y % 2)) % 2) + 2 * xor[x \div 2, y \div 2]
    IN  xor[a, b]

\* (crc >> 1) ^ 0xA001 when the low bit is set, else crc >> 1.  x = crc >> 1 is
\* below 0x8000, so the XOR sets bit 15 and flips bits 13 and 0.
CrcShift(crc) ==
    LET x == crc \div 2
    IN  IF crc % 2 = 1
        THEN x + 32768 + (IF (x \div 8192) % 2 = 1 THEN -8192 ELSE 8192)
                       + (IF x % 2 = 1 THEN -1 ELSE 1)
        ELSE x

\* one byte of the outer loop: crc ^= byte, then eight shifts
CrcByte(crc, byte) ==
    LET bits[c \in Nat, n \in 0 .. 8] ==
            IF n = 0 THEN c ELSE bits[CrcShift(c), n - 1]
    IN  bits[(crc \div 256) * 256 + Xor8(crc % 256, byte), 8]

\* the outer loop over bytes[lo..hi], split in halves to keep the evaluation shallow
calculate_modbus_crc16(bytes) ==
    LET fold[b \in {bytes}, crc \in Nat, lo \in Nat, hi \in Nat] ==
            IF lo > hi THEN crc
            ELSE IF lo = hi THEN CrcByte(crc, b[lo])
            ELSE fold[b, fold[b, crc, lo, (lo + hi) \div 2], (lo + hi) \div 2 + 1, hi]
    IN  fold[bytes, 65535, 1, Len(bytes)]

\* the request with the CRC appended high byte first
build_modbus_command_be(register_addr, num_registers) ==
    LET packet == << DeviceAddr, 3,
                     (register_addr \div 256) % 256, register_addr % 256,
                     (num_registers \div 256) % 256, num_registers % 256 >>
        crc == calculate_modbus_crc16(packet)
    IN  packet \o << (crc \div 256) % 256, crc % 256 >>

build_modbus_command(register_addr, num_registers) ==
    LET packet == << DeviceAddr, 3,
                     (register_addr \div 256) % 256, register_addr % 256,
                     (num_registers \div 256) % 256, num_registers % 256 >>
        crc == calculate_modbus_crc16(packet)
    IN  packet \o << crc % 256, (crc \div 256) % 256 >>

\* range(0, min(len(data), limit), 2) with the guard i + 1 < len(data)
RECURSIVE PairsFrom(_, _, _)
PairsFrom(bytes, i, limit) ==
    IF i >= limit \/ i >= Len(bytes) THEN <<>>
    ELSE (IF i + 1 < Len(bytes) THEN << U16(bytes, i) >> ELSE <<>>)
         \o PairsFrom(bytes, i + 2, limit)

\* -40.0 <= (raw / 10.0) - 273.1 <= 120.0 in floats: raw = 2331 gives -40.00000000000003
TempOk(t) == -400 < t /\ t <= 1200

RECURSIVE TempsOf(_)
TempsOf(raws) ==
    IF raws = <<>> THEN <<>>
    ELSE (IF TempOk(Head(raws) - 2731) THEN << Head(raws) - 2731 >> ELSE <<>>)
         \o TempsOf(Tail(raws))

RECURSIVE CellsOf(_)
CellsOf(raws) ==
    IF raws = <<>> THEN <<>>
    ELSE (IF Head(raws) > 0 THEN << Head(raws) >> ELSE <<>>) \o CellsOf(Tail(raws))

DecodeCurrentAbs(raw) ==
    IF raw >= ZeroCurrent
    THEN [current |-> raw - ZeroCurrent,
          current_direction |-> IF raw - ZeroCurrent > 0 THEN "discharging" ELSE "idle"]
    ELSE [current |-> ZeroCurrent - raw, current_direction |-> "charging"]

DecodeCurrent(raw) ==
    IF raw >= ZeroCurrent
    THEN [current |-> raw - ZeroCurrent,
          current_direction |-> IF raw - ZeroCurrent > 0 THEN "discharging" ELSE "idle"]
    ELSE [current |-> -(ZeroCurrent - raw), current_direction |-> "charging"]

parse_register_data(register_addr, bytes) ==
    IF register_addr = RegVoltage /\ Len(bytes) >= 2
    THEN [total_voltage |-> U16(bytes, 0)]
    ELSE IF register_addr = RegCurrent /\ Len(bytes) >= 2
    THEN DecodeCurrent(U16(bytes, 0))
    ELSE IF register_addr = 0
    THEN [cell_voltages |-> CellsOf(PairsFrom(bytes, 0, 16))]
    ELSE IF register_addr = RegTemp
    THEN [temperatures |-> TempsOf(PairsFrom(bytes, 0, 8))]
    ELSE IF register_addr = RegSoc /\ Len(bytes) >= 2
    THEN [soc |-> U16(bytes, 0)]
    ELSE EmptyDict

parse_modbus_response(command, response) ==
    IF Len(response) < 5 THEN [error |-> "too_short"]
    ELSE IF response[1] # DeviceAddr THEN [error |-> "wrong_slave"]
    ELSE IF response[2] # 3
    THEN (IF response[2] >= 128 THEN [error |-> "exception"] ELSE [error |-> "wrong_func"])
    ELSE IF Len(response) < 3 + response[3] + 2 THEN [error |-> "length"]
    ELSE
        LET data_length == response[3]
            data_bytes  == Slice(response, 3, 3 + data_length)
            expected    == response[Len(response) - 1] + 256 * response[Len(response)]
            calculated  == calculate_modbus_crc16(SubSeq(response, 1, Len(response) - 2))
            result      == [raw_data |-> data_bytes, data_length |-> data_length,
                            crc_valid |-> (expected = calculated)]
        IN  IF Len(command) >= 6
            THEN Merge(result, parse_register_data(command[3] * 256 + command[4], data_bytes))
            ELSE result

\* read_bms_data line 348, read_individual_registers lines 495-549, wake_bms line 579
CommandFor(s) ==
    CASE s = "bulk" -> build_modbus_command(0, BulkCount)
      [] s = "tv"   -> build_modbus_command(RegVoltage, 1)
      [] s = "wake" -> build_modbus_command(RegVoltage, 1)
      [] s = "cur"  -> build_modbus_command(RegCurrent, 1)
      [] s = "temp" -> build_modbus_command(RegTemp, 4)
      [] s = "soc"  -> build_modbus_command(RegSoc, 1)

\* ------------------------------------------------------ the BMS, as inputs
Registers == 0 .. (BulkCount - 1)

Snapshot(v, c, soc, cell, t) ==
    [r \in Registers |->
        IF r < 8 THEN cell
        ELSE IF r >= RegTemp /\ r < RegTemp + 4 THEN t
        ELSE IF r = RegVoltage THEN v
        ELSE IF r = RegCurrent THEN c
        ELSE IF r = RegSoc THEN soc
        ELSE 0]

SnapOK    == Snapshot(265, 30000, 800, 3300, 2974)
SnapLow   == Snapshot(239, 30000, 800, 3300, 2974)
SnapZeroV == Snapshot(0, 30000, 800, 3300, 2974)

\* n registers from addr, big-endian
RegBytes(snap, addr, n) ==
    [i \in 1 .. 2 * n |->
        IF i % 2 = 1 THEN snap[addr + (i - 1) \div 2] \div 256
        ELSE snap[addr + (i - 1) \div 2] % 256]

\* a well-formed answer of the device to "read n registers from addr"
Answer(snap, addr, n) ==
    LET body == << DeviceAddr, 3, 2 * n >> \o RegBytes(snap, addr, n)
        crc  == calculate_modbus_crc16(body)
    IN  body \o << crc % 256, crc \div 256 >>

BadCrc(frame)     == [frame EXCEPT ![Len(frame)] = (@ + 1) % 256]
WrongSlave(frame) == [frame EXCEPT ![1] = 1]
ExceptionFrame    == LET body == << DeviceAddr, 131, 2 >>
                         crc  == calculate_modbus_crc16(body)
                     IN  body \o << crc % 256, crc \div 256 >>

CmdAddr(command)  == command[3] * 256 + command[4]
CmdCount(command) == command[5] * 256 + command[6]

\* what may arrive on the notify characteristic after `command` was written:
\* the echo, answers for several register snapshots, and damaged frames
AnyFrames(command) ==
    LET a == CmdAddr(command)
        n == CmdCount(command)
    IN  IF n = BulkCount
        THEN { command, Answer(SnapOK, a, n), Answer(SnapZeroV, a, n),
               BadCrc(Answer(SnapOK, a, n)), WrongSlave(Answer(SnapOK, a, n)),
               ExceptionFrame }
        ELSE { command, Answer(SnapOK, a, n), BadCrc(Answer(SnapLow, a, n)) }

\* a device that answers a bulk read correctly, once, or not at all
GoodFrames(command) ==
    IF CmdCount(command) = BulkCount
    THEN { Answer(SnapOK, 0, BulkCount), Answer(SnapLow, 0, BulkCount) }
    ELSE {}

\* the commands the monitor writes, and for each the frames the device side of
\* the model can send; both are evaluated once
Stages   == {"wake", "bulk", "tv", "cur", "temp", "soc"}
Commands == { CommandFor(s) : s \in Stages }
Frames   == [c \in Commands |-> AnyFrames(c)]
Good     == [c \in Commands |-> GoodFrames(c)]

\* parse_modbus_response on those commands and frames, evaluated once
Parsed ==
    [p \in UNION { { <<c, f>> : f \in Frames[c] \cup Good[c] } : c \in Commands }
        |-> parse_modbus_response(p[1], p[2])]

Parse(command, response) ==
    IF <<command, response>> \in DOMAIN Parsed
    THEN Parsed[<<command, response>>]
    ELSE parse_modbus_response(command, response)


\* ------------------------------------------------- read_bms_data, stepwise
\* data["temperature"] = sum(temps) / len(temps), in 1/120 degree
AvgTemp(temps) == (SumSeq(temps) * 12) \div Len(temps)

Valid(parsed) == ~Has(parsed, "error") /\ parsed.crc_valid

extract_from_large_response(parsed, d) ==
    LET bytes == parsed.raw_data
        n     == Len(bytes)
        rawv  == U16(bytes, 2 * RegVoltage)
        rawsoc == U16(bytes, 2 * RegSoc)
        d1 == IF 2 * RegVoltage + 1 < n /\ rawv > 0 THEN Put(d, "total_voltage", rawv) ELSE d
        d2 == IF 2 * RegCurrent + 1 < n
              THEN Merge(d1, DecodeCurrent(U16(bytes, 2 * RegCurrent))) ELSE d1
        d3 == IF 2 * RegSoc + 1 < n /\ rawsoc <= 1000 THEN Put(d2, "soc", rawsoc) ELSE d2
        cells == CellsOf(PairsFrom(bytes, 0, 16))
        d4 == IF cells # <<>> THEN Put(d3, "cells", cells) ELSE d3
        temps == TempsOf(PairsFrom(Slice(bytes, 2 * RegTemp, n), 0, 8))
        d5 == IF temps # <<>>
              THEN Put(Put(d4, "temperatures", temps), "temperature", AvgTemp(temps)) ELSE d4
    IN  IF 2 * n < MinRawHex THEN [ok |-> FALSE, data |-> d]
        ELSE [ok |-> d5 # d, data |-> d5]

\* parsed = self.parse_modbus_response(cmd, response), for every response of
\* one send: parsed[i] belongs to resps[i]
ParseAll(command, resps) == [i \in 1 .. Len(resps) |-> Parse(command, resps[i])]

\* for response in responses (from the i-th on): the first non-echo,
\* error-free, CRC-valid frame whose extraction succeeds ends the loop.
RECURSIVE BulkLoop(_, _, _, _, _)
BulkLoop(command, resps, parsed, d, i) ==
    IF i > Len(resps) THEN [ok |-> FALSE, data |-> d]
    ELSE LET ex == extract_from_large_response(parsed[i], d)
         IN  IF resps[i] # command /\ Valid(parsed[i]) /\ ex.ok THEN ex
             ELSE BulkLoop(command, resps, parsed, d, i + 1)

\* for response in responses (from the i-th on): the index of the first
\* non-echo frame whose parse holds `key`, 0 if there is none.
RECURSIVE FirstParsed(_, _, _, _, _)
FirstParsed(command, resps, parsed, key, i) ==
    IF i > Len(resps) THEN 0
    ELSE IF resps[i] # command /\ Has(parsed[i], key) THEN i
    ELSE FirstParsed(command, resps, parsed, key, i + 1)

\* payload = response[3:3+response[2]] if len(response) > 3 else b""
PayloadOf(response) ==
    IF Len(response) > 3 THEN Slice(response, 3, 3 + response[3]) ELSE <<>>

\* struct.unpack on a one-byte tail raises; the except drops this response.
TempsRaise(payload) == Len(payload) < 8 /\ Len(payload) % 2 = 1

\* the temperature loop has no break: the last usable response wins.  `at` is
\* its index.
RECURSIVE TempLoop(_, _, _, _)
TempLoop(command, resps, i, acc) ==
    IF i > Len(resps) THEN acc
    ELSE LET payload == PayloadOf(resps[i])
             temps == TempsOf(PairsFrom(payload, 0, 8))
         IN  IF resps[i] # command /\ ~TempsRaise(payload) /\ temps # <<>>
             THEN TempLoop(command, resps, i + 1, [temps |-> temps, at |-> i])
             ELSE TempLoop(command, resps, i + 1, acc)

\* the soc loop has no break either
RECURSIVE SocLoop(_, _, _, _)
SocLoop(command, resps, i, acc) ==
    IF i > Len(resps) THEN acc
    ELSE LET payload == PayloadOf(resps[i])
         IN  IF resps[i] # command /\ Len(payload) >= 2 /\ U16(payload, 0) <= 1000
             THEN SocLoop(command, resps, i + 1, [soc |-> U16(payload, 0), at |-> i])
             ELSE SocLoop(command, resps, i + 1, acc)

estimate_soc_linear(v) == (2 * (v - 240) * 1000 + 52) \div 104

\* round(((v - 24.0) / (29.2 - 24.0)) * 100, 1), v and the result in tenths
estimate_soc(v) ==
    IF v <= 240 THEN 0
    ELSE IF v >= 292 THEN 1000
    ELSE (2 * (v - 240) * 1000 + 52) \div 104

\* a final step that leaves the power out
FinalizeNoPower(d, ok) ==
    IF ~ok THEN EmptyDict
    ELSE LET d2 == IF ~Has(d, "soc") /\ Has(d, "total_voltage")
                   THEN Put(d, "soc", estimate_soc(d.total_voltage)) ELSE d
         IN  Put(d2, "status", "normal")

\* read_bms_data lines 366-389: the record returned, <<>> for None
Finalize(d, ok) ==
    IF ~ok THEN EmptyDict
    ELSE LET d1 == IF Has(d, "total_voltage") /\ Has(d, "current")
                   THEN Put(d, "power", d.total_voltage * d.current) ELSE d
             d2 == IF ~Has(d1, "soc") /\ Has(d1, "total_voltage")
                   THEN Put(d1, "soc", estimate_soc(d1.total_voltage)) ELSE d1
         IN  Put(d2, "status", "normal")


\* main.py check_alerts (the message text is left out)
RECURSIVE CellAlerts(_, _, _)
CellAlerts(ts, cells, i) ==
    IF i > Len(cells) THEN <<>>
    ELSE (IF cells[i] < 3000
          THEN << [timestamp |-> ts, type |-> "cell_voltage", severity |-> "critical",
                   value |-> cells[i], cell |-> i, threshold |-> 3000] >>
          ELSE <<>>) \o CellAlerts(ts, cells, i + 1)

\* voltage < 24.0 / voltage > 30.4 on floats raw * 0.1: 304 * 0.1 is
\* 30.400000000000002, which is above 30.4
check_alerts(d) ==
    LET v  == IF Has(d, "total_voltage") THEN d.total_voltage ELSE 0
        va == IF v # 0 /\ v < 240
              THEN << [timestamp |-> d.timestamp, type |-> "voltage", severity |-> "critical",
                       value |-> v, threshold |-> 240] >>
              ELSE IF v >= 304
              THEN << [timestamp |-> d.timestamp, type |-> "voltage", severity |-> "critical",
                       value |-> v, threshold |-> 304] >>
              ELSE <<>>
        ca == CellAlerts(d.timestamp, IF Has(d, "cells") THEN d.cells ELSE <<>>, 1)
        t  == IF Has(d, "temperature") THEN d.temperature ELSE 0
        ta == IF t > 45 * 120
              THEN << [timestamp |-> d.timestamp, type |-> "temperature",
                       severity |-> IF t > 55 * 120 THEN "critical" ELSE "warning",
                       value |-> t,
                       threshold |-> IF t > 55 * 120 THEN 55 ELSE 45] >>
              ELSE <<>>
    IN  va \o ca \o ta


\* ------------------------------------------------------------ the hub
Sockets == 1 .. MaxSockets
Callers == {"mon", "lis", "hb"}

RECURSIVE Remove(_, _)
Remove(list, w) ==
    IF list = <<>> THEN <<>>
    ELSE IF Head(list) = w THEN Tail(list)
    ELSE << Head(list) >> \o Remove(Tail(list), w)

InList(list, w) == \E i \in 1 .. Len(list) : list[i] = w

RECURSIVE RemoveAll(_, _)
RemoveAll(list, ws) ==
    IF ws = <<>> THEN list ELSE RemoveAll(Remove(list, Head(ws)), Tail(ws))

SeqSet(q) == { q[i] : i \in 1 .. Len(q) }

\* a round: idx and cur are the position of the for loop in the live list,
\* failed is the local list `disconnected`; stable and attempted are
\* observations (who has been in the list since the round began, and who
\* has been sent to, in order)
IdleRound == [active |-> FALSE, idx |-> 0, cur |-> 0, failed |-> <<>>, msg |-> <<>>,
              stable |-> {}, attempted |-> <<>>]

\* observation: sockets ws left the list, so they are not present for the
\* whole of any round now running
Unstable(rs, ws) == [c \in DOMAIN rs |-> [rs[c] EXCEPT !.stable = @ \ ws]]

\* a hub that forgets the client-info entry
disconnect_list_only(w) ==
    /\ active_connections' = Remove(active_connections, w)
    /\ client_info' = client_info

\* WebSocketManager.disconnect
disconnect(w) ==
    /\ active_connections' = Remove(active_connections, w)
    /\ client_info' = client_info \ {w}

\* broadcast lines 46-56 / send_heartbeat lines 84-91: build the message and
\* start the loop; the caller is then suspended in the first send_text
StartRound(caller, msg) ==
    /\ next_msg' = IF active_connections = <<>> THEN next_msg ELSE next_msg + 1
    /\ rounds' = [rounds EXCEPT ![caller] =
            IF active_connections = <<>> THEN IdleRound
            ELSE [active |-> TRUE, idx |-> 1, cur |-> active_connections[1],
                  failed |-> <<>>, msg |-> msg,
                  stable |-> SeqSet(active_connections), attempted |-> <<>>]]

\* a hub that forgets the cleanup loop
CleanupKeep(list, failed) == list

\* the cleanup loop after the iteration (lines 63-65 / 97-99)
Cleanup(list, failed) == RemoveAll(list, failed)

\* one send_text returns (or raises); the for loop then takes the next element
\* of the live list, or ends and the failed connections are disconnected
RoundStep(caller) ==
    LET r      == rounds[caller]
        ok     == ~closed[r.cur]
        failed == IF ok THEN r.failed ELSE Append(r.failed, r.cur)
        more   == r.idx < Len(active_connections)
    IN  /\ r.active
        /\ recv' = IF ok THEN [recv EXCEPT ![r.cur] = @ \cup {r.msg}] ELSE recv
        /\ refused' = IF ok THEN refused ELSE [refused EXCEPT ![r.cur] = @ \cup {r.msg}]
        /\ IF more
           THEN /\ rounds' = [rounds EXCEPT ![caller] =
                        [r EXCEPT !.idx = r.idx + 1, !.cur = active_connections[r.idx + 1],
                                  !.failed = failed, !.attempted = Append(@, r.cur)]]
                /\ UNCHANGED <<active_connections, client_info>>
           ELSE /\ rounds' = Unstable([rounds EXCEPT ![caller] = IdleRound],
                                      SeqSet(failed) \cap SeqSet(active_connections))
                /\ active_connections' = Cleanup(active_connections, failed)
                /\ client_info' = client_info \ SeqSet(failed)
        /\ UNCHANGED <<ep, closed, next_msg>>


\* ---- websocket_endpoint, one per socket
\* lines 106-115: WebSocketManager.connect accepts, appends and records the
\* client, and the welcome message goes to the socket just accepted
Accept(w) ==
    /\ ep[w] = "new"
    /\ \A v \in Sockets : v < w => ep[v] # "new"
    /\ active_connections' = Append(active_connections, w)
    /\ client_info' = client_info \cup {w}
    /\ ep' = [ep EXCEPT ![w] = "recv"]
    /\ UNCHANGED <<closed, recv, refused, rounds, next_msg>>
    /\ UNCHANGED <<bmsVars, monVars, sinkVars>>
    /\ UNCHANGED <<connVars, apiVars, callVars, sendVars>>

\* the peer closes the socket
PeerClose(w) ==
    /\ ep[w] = "recv"
    /\ ~closed[w]
    /\ closed' = [closed EXCEPT ![w] = TRUE]
    /\ UNCHANGED <<active_connections, client_info, ep, recv, refused, rounds,
                   next_msg>>
    /\ UNCHANGED <<bmsVars, monVars, sinkVars>>
    /\ UNCHANGED <<connVars, apiVars, callVars, sendVars>>

\* lines 126-145: the endpoint answers a ping or a subscribe request with
\* send_personal_message; when send_text raises, the hub disconnects the
\* socket and the endpoint goes back to receive_text
PersonalSend(w) ==
    /\ ep[w] = "recv"
    /\ IF closed[w]
       THEN /\ disconnect(w)
            /\ rounds' = Unstable(rounds, {w})
       ELSE UNCHANGED <<active_connections, client_info, rounds>>
    /\ UNCHANGED <<ep, closed, recv, refused, next_msg>>
    /\ UNCHANGED <<bmsVars, monVars, sinkVars>>
    /\ UNCHANGED <<connVars, apiVars, callVars, sendVars>>

\* receive_text raises WebSocketDisconnect; the finally block disconnects
EndpointExit(w) ==
    /\ ep[w] = "recv"
    /\ closed[w]
    /\ ep' = [ep EXCEPT ![w] = "gone"]
    /\ disconnect(w)
    /\ rounds' = Unstable(rounds, {w})
    /\ UNCHANGED <<closed, recv, refused, next_msg>>
    /\ UNCHANGED <<bmsVars, monVars, sinkVars>>
    /\ UNCHANGED <<connVars, apiVars, callVars, sendVars>>

\* ---- rounds as seen from the hub alone: some task calls broadcast, the
\* heartbeat task calls send_heartbeat
HubMessage(topic) == [topic |-> topic, data |-> [timestamp |-> next_msg]]

BroadcastCall(caller) ==
    /\ caller \in {"mon", "lis"}
    /\ ~rounds[caller].active
    /\ caller = "lis" => rounds["mon"].active
    /\ next_msg <= MaxRounds
    /\ StartRound(caller, HubMessage("realtime"))
    /\ UNCHANGED <<active_connections, client_info, ep, closed, recv, refused>>
    /\ UNCHANGED <<bmsVars, monVars, sinkVars>>
    /\ UNCHANGED <<connVars, apiVars, callVars, sendVars>>

Heartbeat ==
    /\ ~rounds["hb"].active
    /\ next_msg <= MaxRounds
    /\ StartRound("hb", HubMessage("heartbeat"))
    /\ UNCHANGED <<active_connections, client_info, ep, closed, recv, refused>>
    /\ UNCHANGED <<bmsVars, monVars, sinkVars>>
    /\ UNCHANGED <<connVars, apiVars, callVars, sendVars>>

SendReturns(caller) ==
    /\ RoundStep(caller)
    /\ UNCHANGED <<bmsVars, monVars, sinkVars>>
    /\ UNCHANGED <<connVars, apiVars, callVars, sendVars>>


\* ------------------------------------------------- the monitoring task
Running == teardown < 4

NewObs(ok0, err0, was_connected) ==
    [read_connected |-> FALSE, was_connected |-> was_connected, write_failed |-> FALSE,
     bulk_crc_failed |-> FALSE, any_valid |-> FALSE, tainted |-> {}, bulk_tv |-> FALSE,
     emitted |-> 0, fired |-> 0, ok0 |-> ok0, err0 |-> err0]

CrcFailed(command, r, p) == r # command /\ ~Has(p, "error") /\ ~p.crc_valid

ValidFrame(command, r, p) == r # command /\ Valid(p)

SawValid(command, resps, parsed) ==
    \E i \in 1 .. Len(resps) : ValidFrame(command, resps[i], parsed[i])

Taint(o, cond, fields) == IF cond THEN [o EXCEPT !.tainted = @ \cup fields] ELSE o

\* read_bms_data returns: the record (or None) and where the task goes next
ReadDone(d, ok, o) ==
    [data |-> Finalize(d, ok), success |-> ok, pc |-> IF ok THEN "emit" ELSE "sleep",
     stage |-> "bulk", obs |-> o, ok |-> ok]

ReadOn(d, ok, st, nextpc, o) ==
    [data |-> d, success |-> ok, pc |-> nextpc, stage |-> st, obs |-> o, ok |-> FALSE]

\* the code that runs when send_command returns `resps` for the command of
\* stage st, up to the next await; parsed = ParseAll(cmd', resps)
AfterSend(st, resps, parsed, o0) ==
    LET o  == [o0 EXCEPT !.any_valid = @ \/ (st # "wake" /\ SawValid(cmd', resps, parsed))]
        ok(i) == ValidFrame(cmd', resps[i], parsed[i])
    IN  CASE st = "wake" -> ReadOn(data, success, "wake", "read", o0)
          [] st = "bulk" ->
                LET res == BulkLoop(cmd', resps, parsed, data, 1)
                    o1  == [o EXCEPT !.bulk_crc_failed =
                                \E i \in 1 .. Len(resps) : CrcFailed(cmd', resps[i], parsed[i]),
                                     !.bulk_tv = Has(res.data, "total_voltage")]
                IN  IF res.ok THEN ReadDone(res.data, TRUE, o1)
                    ELSE ReadOn(res.data, FALSE, "tv", "send", o1)
          [] st = "tv" ->
                LET k == FirstParsed(cmd', resps, parsed, "total_voltage", 1)
                IN  IF k = 0 THEN ReadOn(data, success, "tv", "gap", o)
                    ELSE ReadOn(Put(data, "total_voltage", parsed[k].total_voltage), TRUE,
                                "tv", "gap", Taint(o, ~ok(k), {"total_voltage"}))
          [] st = "cur" ->
                LET k == FirstParsed(cmd', resps, parsed, "current", 1)
                IN  IF k = 0 THEN ReadOn(data, success, "temp", "send", o)
                    ELSE ReadOn(Put(Put(data, "current", parsed[k].current),
                                    "current_direction", parsed[k].current_direction),
                                TRUE, "temp", "send", Taint(o, ~ok(k), {"current"}))
          [] st = "temp" ->
                LET acc == TempLoop(cmd', resps, 1, EmptyDict)
                IN  IF acc = EmptyDict THEN ReadOn(data, success, "soc", "send", o)
                    ELSE ReadOn(Put(Put(data, "temperatures", acc.temps),
                                    "temperature", AvgTemp(acc.temps)),
                                TRUE, "soc", "send", Taint(o, ~ok(acc.at), {"temperatures"}))
          [] st = "soc" ->
                LET acc == SocLoop(cmd', resps, 1, EmptyDict)
                IN  IF acc = EmptyDict THEN ReadDone(data, success, o)
                    ELSE ReadDone(Put(data, "soc", acc.soc), TRUE,
                                  Taint(o, ~ok(acc.at), {"soc"}))

\* a session that counts every return of read_bms_data as a read
ApplyCountAll(res) ==
    /\ data' = res.data
    /\ success' = res.success
    /\ pc' = res.pc
    /\ stage' = res.stage
    /\ obs' = res.obs
    /\ read_count' = IF res.pc \in {"emit", "sleep"} THEN read_count + 1 ELSE read_count
    /\ last_read_time' = IF res.ok THEN tick ELSE last_read_time

Apply(res) ==
    /\ data' = res.data
    /\ success' = res.success
    /\ pc' = res.pc
    /\ stage' = res.stage
    /\ obs' = res.obs
    /\ read_count' = IF res.ok THEN read_count + 1 ELSE read_count
    /\ last_read_time' = IF res.ok THEN tick ELSE last_read_time

\* bms_monitoring_task lines 200-208 with BMSService.connect as one step: it
\* either connects and enables notifications, or fails and clears the flag
MonConnect ==
    /\ Running
    /\ pc = "tick"
    /\ ~connected
    /\ tick < MaxTicks
    /\ \E ok \in BOOLEAN :
        /\ connected' = ok
        /\ link_up' = ok
        /\ pc' = IF ok THEN "send" ELSE "tick"
        /\ stage' = IF ok THEN "wake" ELSE stage
    /\ UNCHANGED <<responses, read_count, error_count, last_read_time>>
    /\ UNCHANGED <<cmd, data, success, tick, alerts, sent, obs>>
    /\ UNCHANGED <<sinkVars, hubVars>>
    /\ UNCHANGED <<connVars, apiVars, callVars, sendVars>>

\* read_bms_data lines 335-348
MonStartRead ==
    /\ Running
    /\ pc \in (IF connected THEN {"tick", "read"} ELSE {"read"})
    /\ tick < MaxTicks
    /\ IF connected
       THEN /\ tick' = tick + 1
            /\ data' = [timestamp |-> tick + 1, connection_status |-> "connected"]
            /\ success' = FALSE
            /\ stage' = "bulk"
            /\ pc' = "send"
            /\ obs' = [obs EXCEPT !.read_connected = TRUE]
       ELSE /\ pc' = "sleep"
            /\ data' = EmptyDict
            /\ UNCHANGED <<success, stage, tick, obs>>
    /\ UNCHANGED <<cmd, alerts, sent>>
    /\ UNCHANGED <<bmsVars, sinkVars, hubVars>>
    /\ UNCHANGED <<connVars, apiVars, callVars, sendVars>>

\* send_command lines 218-226: clear the buffer and write; a failed write is
\* caught and [] returned at once
MonSend ==
    /\ Running
    /\ pc = "send"
    /\ responses' = <<>>
    /\ cmd' = CommandFor(stage)
    /\ sent' = Append(sent, stage)
    /\ IF link_up
       THEN /\ pc' = "wait"
            /\ UNCHANGED <<data, success, stage, obs, read_count, last_read_time>>
       ELSE Apply(AfterSend(stage, <<>>, <<>>, [obs EXCEPT !.write_failed = TRUE]))
    /\ UNCHANGED <<connected, link_up, error_count, tick, alerts>>
    /\ UNCHANGED <<sinkVars, hubVars>>
    /\ UNCHANGED <<connVars, apiVars, callVars, sendVars>>

\* send_command lines 227-233: the sleep ends and the buffer is returned
MonReturn ==
    /\ Running
    /\ pc = "wait"
    /\ cmd' = cmd
    /\ Apply(AfterSend(stage, responses, ParseAll(cmd, responses), obs))
    /\ UNCHANGED <<connected, link_up, responses, error_count, tick, alerts, sent>>
    /\ UNCHANGED <<sinkVars, hubVars>>
    /\ UNCHANGED <<connVars, apiVars, callVars, sendVars>>

\* read_individual_registers line 504: asyncio.sleep(0.5)
MonGap ==
    /\ Running
    /\ pc = "gap"
    /\ pc' = "send"
    /\ stage' = "cur"
    /\ UNCHANGED <<cmd, data, success, tick, alerts, sent, obs>>
    /\ UNCHANGED <<bmsVars, sinkVars, hubVars>>
    /\ UNCHANGED <<connVars, apiVars, callVars, sendVars>>

\* notification_handler: a non-empty notification is appended to the buffer
notification_handler(frame) ==
    /\ Running
    /\ pc = "wait"
    /\ link_up
    /\ Len(responses) < MaxResponses
    /\ frame # <<>>
    /\ responses' = Append(responses, frame)
    /\ UNCHANGED <<connected, link_up, read_count, error_count, last_read_time>>
    /\ UNCHANGED <<monVars, sinkVars, hubVars>>
    /\ UNCHANGED <<connVars, apiVars, callVars, sendVars>>

NotifyAny ==
    /\ pc = "wait"
    /\ \E f \in Frames[cmd] : notification_handler(f)

NotifyGood ==
    /\ pc = "wait"
    /\ responses = <<>>
    /\ \E f \in Good[cmd] : notification_handler(f)

\* the BLE link is lost; nothing in the session notices
LinkDrop ==
    /\ Running
    /\ pc = "send"
    /\ link_up
    /\ link_up' = FALSE
    /\ UNCHANGED <<connected, responses, read_count, error_count, last_read_time>>
    /\ UNCHANGED <<monVars, sinkVars, hubVars>>
    /\ UNCHANGED <<connVars, apiVars, callVars, sendVars>>


\* ------------------------------------------------------------ the fan-out
\* json.dumps / json.loads of these dicts (strings, numbers, lists) gives the
\* same dict back, so a message is carried as the dict itself.
Message(topic, d) == [topic |-> topic, data |-> d]

\* a task that ends when an item has been handled
AfterItemsStop(rest) == "stopped"

AfterItems(rest) == IF rest = <<>> THEN "sleep" ELSE "alerts"

\* MQTTService.publish lines 76-87: sent, or the error is logged and False returned
publish(msg, ok) ==
    /\ broker' = IF ok THEN Append(broker, msg) ELSE broker
    /\ published' = IF ok THEN Append(published, msg) ELSE published

\* a handler that goes on to the cache without the store step
StoreStepNone(msg, ok) ==
    /\ store' = store
    /\ store_skipped' = store_skipped

\* handle_realtime_data lines 152-155 / handle_alert_data lines 173-183:
\* the row is appended unless the store is not connected or the write fails
StoreStep(msg, ok) ==
    /\ store' = IF db_connected /\ ok THEN Append(store, msg) ELSE store
    /\ store_skipped' = IF db_connected /\ ok THEN store_skipped
                        ELSE store_skipped \cup {msg}

\* handle_realtime_data lines 158-159 / CacheService.set_data
CacheStep(msg, ok) ==
    cache_latest' = IF cache_connected /\ ok THEN msg.data ELSE cache_latest

\* CacheService.set_history_data: the key history:<timestamp>.  Nothing in
\* the application calls it
set_history_data(d) == cache_history \cup {d.timestamp}

AfterStore(msg) == IF msg.topic = "realtime" THEN "h_cache" ELSE "h_bcast"

\* bms_monitoring_task lines 212-219: the first connectivity check and the publish
MonEmit ==
    /\ Running
    /\ pc = "emit"
    /\ \E ok \in (IF mqtt_connected THEN BOOLEAN ELSE {TRUE}) :
        IF mqtt_connected
        THEN /\ publish(Message("realtime", data), ok)
             /\ pc' = "emit2"
             /\ UNCHANGED mon_msg
        ELSE /\ mon_msg' = Message("realtime", data)
             /\ pc' = "h_store"
             /\ UNCHANGED <<broker, published>>
    /\ obs' = [obs EXCEPT !.emitted = @ + 1]
    /\ UNCHANGED <<stage, cmd, data, success, tick, alerts, sent>>
    /\ UNCHANGED <<db_connected, cache_connected, mqtt_connected, store, cache_latest,
                   store_skipped, lis_pc, lis_msg, teardown>>
    /\ UNCHANGED <<bmsVars, hubVars>>
    /\ UNCHANGED <<connVars, apiVars, callVars, sendVars>>

\* bms_monitoring_task lines 218-222: the second connectivity check
MonEmit2 ==
    /\ Running
    /\ pc = "emit2"
    /\ IF ~mqtt_connected
       THEN /\ mon_msg' = Message("realtime", data)
            /\ pc' = "h_store"
            /\ obs' = [obs EXCEPT !.emitted = @ + 1]
            /\ UNCHANGED alerts
       ELSE /\ alerts' = check_alerts(data)
            /\ pc' = AfterItems(alerts')
            /\ obs' = [obs EXCEPT !.fired = Len(alerts')]
            /\ UNCHANGED mon_msg
    /\ UNCHANGED <<stage, cmd, data, success, tick, sent>>
    /\ UNCHANGED <<db_connected, cache_connected, mqtt_connected, store, cache_latest,
                   store_skipped, broker, published, lis_pc, lis_msg, teardown>>
    /\ UNCHANGED <<bmsVars, hubVars>>
    /\ UNCHANGED <<connVars, apiVars, callVars, sendVars>>

\* bms_monitoring_task lines 223-227: the next alert is published or handled
MonAlert ==
    /\ Running
    /\ pc = "alerts"
    /\ alerts # <<>>
    /\ alerts' = Tail(alerts)
    /\ \E ok \in (IF mqtt_connected THEN BOOLEAN ELSE {TRUE}) :
        IF mqtt_connected
        THEN /\ publish(Message("alerts", Head(alerts)), ok)
             /\ pc' = AfterItems(alerts')
             /\ UNCHANGED mon_msg
        ELSE /\ mon_msg' = Message("alerts", Head(alerts))
             /\ pc' = "h_store"
             /\ UNCHANGED <<broker, published>>
    /\ UNCHANGED <<stage, cmd, data, success, tick, sent, obs>>
    /\ UNCHANGED <<db_connected, cache_connected, mqtt_connected, store, cache_latest,
                   store_skipped, lis_pc, lis_msg, teardown>>
    /\ UNCHANGED <<bmsVars, hubVars>>
    /\ UNCHANGED <<connVars, apiVars, callVars, sendVars>>

MonStore ==
    /\ Running
    /\ pc = "h_store"
    /\ \E ok \in (IF db_connected THEN BOOLEAN ELSE {FALSE}) : StoreStep(mon_msg, ok)
    /\ pc' = AfterStore(mon_msg)
    /\ UNCHANGED <<stage, cmd, data, success, tick, alerts, sent, obs>>
    /\ UNCHANGED <<db_connected, cache_connected, mqtt_connected, cache_latest,
                   broker, published, lis_pc, lis_msg, mon_msg, teardown>>
    /\ UNCHANGED <<bmsVars, hubVars>>
    /\ UNCHANGED <<connVars, apiVars, callVars, sendVars>>

MonCache ==
    /\ Running
    /\ pc = "h_cache"
    /\ \E ok \in (IF cache_connected THEN BOOLEAN ELSE {FALSE}) : CacheStep(mon_msg, ok)
    /\ pc' = "h_bcast"
    /\ UNCHANGED <<stage, cmd, data, success, tick, alerts, sent, obs>>
    /\ UNCHANGED <<db_connected, cache_connected, mqtt_connected, store,
                   store_skipped, broker, published, lis_pc, lis_msg, mon_msg, teardown>>
    /\ UNCHANGED <<bmsVars, hubVars>>
    /\ UNCHANGED <<connVars, apiVars, callVars, sendVars>>

MonBroadcast ==
    /\ Running
    /\ pc = "h_bcast"
    /\ StartRound("mon", mon_msg)
    /\ pc' = "h_wait"
    /\ UNCHANGED <<stage, cmd, data, success, tick, alerts, sent, obs>>
    /\ UNCHANGED <<active_connections, client_info, ep, closed, recv, refused>>
    /\ UNCHANGED <<bmsVars, sinkVars>>
    /\ UNCHANGED <<connVars, apiVars, callVars, sendVars>>

\* the handler returns to bms_monitoring_task: alerts are computed after the
\* record, the loop goes on after an alert
MonHandled ==
    /\ Running
    /\ pc = "h_wait"
    /\ ~rounds["mon"].active
    /\ alerts' = IF mon_msg.topic = "realtime" THEN check_alerts(data) ELSE alerts
    /\ obs' = IF mon_msg.topic = "realtime" THEN [obs EXCEPT !.fired = Len(alerts')] ELSE obs
    /\ pc' = AfterItems(alerts')
    /\ UNCHANGED <<stage, cmd, data, success, tick, sent>>
    /\ UNCHANGED <<bmsVars, sinkVars, hubVars>>
    /\ UNCHANGED <<connVars, apiVars, callVars, sendVars>>

\* bms_monitoring_task line 230: asyncio.sleep(bms_read_interval) ends
MonSleep ==
    /\ Running
    /\ pc = "sleep"
    /\ pc' = "tick"
    /\ sent' = <<>>
    /\ obs' = NewObs(read_count, error_count, connected)
    /\ UNCHANGED <<stage, cmd, data, success, tick, alerts>>
    /\ UNCHANGED <<bmsVars, sinkVars, hubVars>>
    /\ UNCHANGED <<connVars, apiVars, callVars, sendVars>>

\* ------------------------------------------------- the pub/sub listener
\* start_listening line 114 / handle_message: the next message is taken and
\* its registered handler called
LisTake ==
    /\ Running
    /\ lis_pc = "idle"
    /\ broker # <<>>
    /\ lis_msg' = Head(broker)
    /\ broker' = Tail(broker)
    /\ lis_pc' = "h_store"
    /\ UNCHANGED <<db_connected, cache_connected, mqtt_connected, store, cache_latest,
                   store_skipped, published, mon_msg, teardown>>
    /\ UNCHANGED <<bmsVars, monVars, hubVars>>
    /\ UNCHANGED <<connVars, apiVars, callVars, sendVars>>

LisStore ==
    /\ Running
    /\ lis_pc = "h_store"
    /\ \E ok \in (IF db_connected THEN BOOLEAN ELSE {FALSE}) : StoreStep(lis_msg, ok)
    /\ lis_pc' = AfterStore(lis_msg)
    /\ UNCHANGED <<db_connected, cache_connected, mqtt_connected, cache_latest,
                   broker, published, lis_msg, mon_msg, teardown>>
    /\ UNCHANGED <<bmsVars, monVars, hubVars>>
    /\ UNCHANGED <<connVars, apiVars, callVars, sendVars>>

LisCache ==
    /\ Running
    /\ lis_pc = "h_cache"
    /\ \E ok \in (IF cache_connected THEN BOOLEAN ELSE {FALSE}) : CacheStep(lis_msg, ok)
    /\ lis_pc' = "h_bcast"
    /\ UNCHANGED <<db_connected, cache_connected, mqtt_connected, store,
                   store_skipped, broker, published, lis_msg, mon_msg, teardown>>
    /\ UNCHANGED <<bmsVars, monVars, hubVars>>
    /\ UNCHANGED <<connVars, apiVars, callVars, sendVars>>

LisBroadcast ==
    /\ Running
    /\ lis_pc = "h_bcast"
    /\ StartRound("lis", lis_msg)
    /\ lis_pc' = "h_wait"
    /\ UNCHANGED <<db_connected, cache_connected, mqtt_connected, store, cache_latest,
                   store_skipped, broker, published, lis_msg, mon_msg, teardown>>
    /\ UNCHANGED <<active_connections, client_info, ep, closed, recv, refused>>
    /\ UNCHANGED <<bmsVars, monVars>>
    /\ UNCHANGED <<connVars, apiVars, callVars, sendVars>>

LisHandled ==
    /\ Running
    /\ lis_pc = "h_wait"
    /\ ~rounds["lis"].active
    /\ lis_pc' = "idle"
    /\ UNCHANGED <<db_connected, cache_connected, mqtt_connected, store, cache_latest,
                   store_skipped, broker, published, lis_msg, mon_msg, teardown>>
    /\ UNCHANGED <<bmsVars, monVars, hubVars>>
    /\ UNCHANGED <<connVars, apiVars, callVars, sendVars>>

\* start_listening lines 116-117: the message iteration raises (connection
\* lost, client disconnected); the error is logged and the task ends.
\* MQTTService.connected is not touched.
ListenerDies ==
    /\ Running
    /\ lis_pc = "idle"
    /\ lis_pc' = "off"
    /\ UNCHANGED <<db_connected, cache_connected, mqtt_connected, store, cache_latest,
                   store_skipped, broker, published, lis_msg, mon_msg, teardown>>
    /\ UNCHANGED <<bmsVars, monVars, hubVars>>
    /\ UNCHANGED <<connVars, apiVars, callVars, sendVars>>

\* ------------------------------------------------ lifespan teardown
\* main.py lines 82-85, one awaited call per step; the background tasks are
\* not cancelled and keep running until the last call has returned
Teardown ==
    /\ Running
    /\ teardown' = teardown + 1
    /\ cache_connected' = IF teardown = 0 THEN FALSE ELSE cache_connected
    /\ mqtt_connected'  = IF teardown = 1 THEN FALSE ELSE mqtt_connected
    /\ connected'       = IF teardown = 2 THEN FALSE ELSE connected
    /\ link_up'         = IF teardown = 2 THEN FALSE ELSE link_up
    /\ db_connected'    = IF teardown = 3 THEN FALSE ELSE db_connected
    /\ UNCHANGED <<responses, read_count, error_count, last_read_time>>
    /\ UNCHANGED <<store, cache_latest, store_skipped, broker, published,
                   lis_pc, lis_msg, mon_msg>>
    /\ UNCHANGED <<monVars, hubVars>>
    /\ UNCHANGED <<connVars, apiVars, callVars, sendVars>>


\* ------------------------------------------------- the query interface
\* Python's None, for a dependency that resolved to nothing
None == "None"

\* main.py lines 105-123: the overrides are registered under the functions
\* main.py defines itself; routes.py is imported for its router only
dependency_overrides ==
    [f \in {"main.get_cache_service", "main.get_mqtt_service", "main.get_database_service"} |->
        CASE f = "main.get_cache_service"    -> "cache_service"
          [] f = "main.get_mqtt_service"     -> "mqtt_service"
          [] f = "main.get_database_service" -> "database_service"]

\* routes.py lines 39-54: the functions the handlers depend on; the body of
\* each is `pass`
get_cache_service    == None
get_mqtt_service     == None
get_database_service == None
main_get_bms_service == "bms_service"
get_bms_service      == None

\* Depends(f) in a handler's signature: the override registered under f, else
\* the result of calling f
Depends(f, result) ==
    IF f \in DOMAIN dependency_overrides THEN dependency_overrides[f] ELSE result

\* the rows of the two tables, in insertion order
DataRows  == SelectSeq(store, LAMBDA m : m.topic = "realtime")
AlertRows == SelectSeq(store, LAMBDA m : m.topic = "alerts")

\* get_latest_battery_data(limit=1): order_by(timestamp.desc()).limit(1); of
\* rows with the same timestamp the one inserted last is taken
get_latest_battery_data ==
    IF ~db_connected \/ DataRows = <<>>
    THEN <<>>
    ELSE LET top == CHOOSE i \in 1 .. Len(DataRows) :
                        \A j \in 1 .. Len(DataRows) :
                            \/ DataRows[j].data.timestamp < DataRows[i].data.timestamp
                            \/ DataRows[j].data.timestamp = DataRows[i].data.timestamp /\ j <= i
         IN  << DataRows[top].data >>

\* the fields get_realtime_data copies from a row, with the defaults of .get
RowFields == {"total_voltage", "current", "power", "soc", "temperature"}
FromRow(d) ==
    [k \in RowFields \cup {"timestamp", "status", "connection_status"} |->
        IF k \in DOMAIN d THEN d[k]
        ELSE IF k = "status" THEN "unknown"
        ELSE IF k = "connection_status" THEN "disconnected"
        ELSE 0]

\* the default record of get_realtime_data (timestamp: the time of the request)
DefaultRealtime ==
    [k \in RowFields \cup {"timestamp", "status", "connection_status"} |->
        IF k = "status" THEN "no_data"
        ELSE IF k = "connection_status" THEN "disconnected"
        ELSE 0]

\* routes.py get_realtime_data with the dependencies it was given
get_realtime_data(cache, database) ==
    IF cache # None /\ cache_connected /\ cache_latest # EmptyDict
    THEN [from |-> "cache", body |-> cache_latest]
    ELSE IF database # None /\ db_connected /\ get_latest_battery_data # <<>>
    THEN [from |-> "store", body |-> FromRow(get_latest_battery_data[1])]
    ELSE [from |-> "default", body |-> DefaultRealtime]

\* the default record of get_system_status
DefaultStatus == [connected |-> FALSE, read_count |-> 0, error_count |-> 0, uptime |-> 0]

\* routes.py get_system_status (/system-status): the cache, else the defaults
get_system_status(cache) ==
    IF cache # None /\ cache_connected /\ cache_status # EmptyDict
    THEN [from |-> "cache", body |-> cache_status]
    ELSE [from |-> "default", body |-> DefaultStatus]

\* the handlers as the application calls them
LatestTelemetry ==
    get_realtime_data(Depends("routes.get_cache_service", get_cache_service),
                      Depends("routes.get_database_service", get_database_service))
SystemStatus ==
    get_system_status(Depends("routes.get_cache_service", get_cache_service))


\* ---- the alert table and its operations
AlertIds == 1 .. Len(AlertRows)

\* the first n elements of a list (SQL LIMIT n)
Take(q, n) == [i \in 1 .. (IF n < Len(q) THEN n ELSE Len(q)) |-> q[i]]

\* order_by(timestamp.desc()): rows are inserted with timestamp = utcnow(),
\* so the ids by falling timestamp are n, n-1, ..., 1
NewestFirst(n) == [i \in 1 .. n |-> n + 1 - i]

\* a store that acknowledges the neighbour row as well
acknowledge_neighbour(alert_id, ok) ==
    [result |-> TRUE, acked |-> acked \cup ({alert_id, alert_id + 1} \cap AlertIds)]

\* DatabaseService.acknowledge_alert: the result and the acknowledged column
\* afterwards; ~ok is an SQLAlchemyError in execute or commit
acknowledge_alert(alert_id, ok) ==
    IF ~db_connected \/ ~ok
    THEN [result |-> FALSE, acked |-> acked]
    ELSE IF alert_id \in AlertIds
    THEN [result |-> TRUE, acked |-> acked \cup {alert_id}]
    ELSE [result |-> FALSE, acked |-> acked]

\* a query without the where clause
get_all_alerts(limit, ok) ==
    [i \in 1 .. Len(Take(NewestFirst(Len(AlertRows)), limit)) |->
        [id |-> NewestFirst(Len(AlertRows))[i],
         acknowledged |-> NewestFirst(Len(AlertRows))[i] \in acked]]

\* DatabaseService.get_active_alerts: where acknowledged == False, newest
\* first, limit
get_active_alerts(limit, ok) ==
    IF ~db_connected \/ ~ok
    THEN <<>>
    ELSE LET ids == Take(SelectSeq(NewestFirst(Len(AlertRows)), LAMBDA i : i \notin acked), limit)
         IN  [i \in 1 .. Len(ids) |-> [id |-> ids[i], acknowledged |-> ids[i] \in acked]]

\* DatabaseService.cleanup_old_data: battery_data rows older than the cutoff
\* are deleted (system_status rows too; there are none)
cleanup_old_data(cutoff) ==
    IF ~db_connected
    THEN store
    ELSE SelectSeq(store, LAMBDA m : m.topic # "realtime" \/ m.data.timestamp >= cutoff)

\* routes.py acknowledge_alert: status code and the acknowledged column
route_acknowledge_alert(database, alert_id, ok) ==
    IF database # None /\ db_connected
    THEN LET r == acknowledge_alert(alert_id, ok)
         IN  [code |-> IF r.result THEN 200 ELSE 404, acked |-> r.acked]
    ELSE [code |-> 503, acked |-> acked]

\* routes.py get_alerts
get_alerts(database, limit, ok) ==
    IF database # None /\ db_connected
    THEN [code |-> 200, alerts |-> get_active_alerts(limit, ok)]
    ELSE [code |-> 200, alerts |-> <<>>]

\* ---- requests and store operations, one per step
NoReply == [op |-> "none", code |-> 0, arg |-> 0, body |-> <<>>]

\* records and alerts as the fan-out hands them to the store: the next
\* record is newer than every row
LastTs == IF DataRows = <<>> THEN 0 ELSE DataRows[Len(DataRows)].data.timestamp
SampleData ==
    { [timestamp |-> LastTs + 1, total_voltage |-> 239, status |-> "normal",
       connection_status |-> "connected"] }
SampleAlerts ==
    { [timestamp |-> 1, type |-> "voltage", severity |-> "critical",
       value |-> 239, threshold |-> 240] }
Limits == 0 .. MaxRows

ApiFrame ==
    /\ UNCHANGED <<cache_connected, mqtt_connected, broker, published,
                   lis_pc, lis_msg, mon_msg, teardown, cache_status,
                   cache_history, diag_pc>>
    /\ UNCHANGED <<bmsVars, monVars, hubVars, connVars, callVars, sendVars>>

\* handle_realtime_data lines 152-155: save_battery_data
DbSaveData ==
    /\ Len(DataRows) < MaxData
    /\ db_connected
    /\ \E d \in SampleData :
        /\ StoreStep(Message("realtime", d), TRUE)
        /\ reply' = [op |-> "save_data", code |-> 0, arg |-> 0, body |-> <<>>]
    /\ UNCHANGED <<db_connected, cache_latest, acked>>
    /\ ApiFrame

\* handle_alert_data lines 173-183: save_battery_alert, acknowledged = False
DbSaveAlert ==
    /\ Len(AlertRows) < MaxRows
    /\ db_connected
    /\ \E a \in SampleAlerts :
        /\ StoreStep(Message("alerts", a), TRUE)
        /\ reply' = [op |-> "save_alert", code |-> 0, arg |-> 0, body |-> <<>>]
    /\ UNCHANGED <<db_connected, cache_latest, acked>>
    /\ ApiFrame

\* DatabaseService.acknowledge_alert called on the service
DbAcknowledge ==
    /\ \E id \in 1 .. MaxRows, ok \in BOOLEAN :
        LET r == acknowledge_alert(id, ok)
        IN  /\ acked' = r.acked
            /\ reply' = [op |-> "db_acknowledge", code |-> IF r.result THEN 1 ELSE 0,
                         arg |-> id, body |-> <<>>]
    /\ UNCHANGED <<db_connected, store, store_skipped, cache_latest>>
    /\ ApiFrame

\* DatabaseService.get_active_alerts called on the service
DbActiveAlerts ==
    /\ \E limit \in Limits, ok \in BOOLEAN :
        reply' = [op |-> "db_alerts", code |-> 0, arg |-> limit,
                  body |-> get_active_alerts(limit, ok)]
    /\ UNCHANGED <<db_connected, store, store_skipped, cache_latest, acked>>
    /\ ApiFrame

\* DatabaseService.cleanup_old_data
DbCleanup ==
    /\ \E cutoff \in 1 .. MaxData + 1 :
        /\ store' = cleanup_old_data(cutoff)
        /\ reply' = [op |-> "cleanup", code |-> 0, arg |-> 0, body |-> <<>>]
    /\ UNCHANGED <<db_connected, store_skipped, cache_latest, acked>>
    /\ ApiFrame

\* DatabaseService.close (lifespan teardown)
DbClose ==
    /\ db_connected
    /\ db_connected' = FALSE
    /\ reply' = [op |-> "close", code |-> 0, arg |-> 0, body |-> <<>>]
    /\ UNCHANGED <<store, store_skipped, cache_latest, acked>>
    /\ ApiFrame

\* POST /api/alerts/{id}/acknowledge; body: what was true when the request
\* came in (observation)
ApiAcknowledge ==
    /\ \E id \in 1 .. MaxRows, ok \in BOOLEAN :
        LET r == route_acknowledge_alert(
                     Depends("routes.get_database_service", get_database_service), id, ok)
        IN  /\ acked' = r.acked
            /\ reply' = [op |-> "acknowledge", code |-> r.code, arg |-> id,
                         body |-> [available |-> db_connected /\ ok,
                                   existed |-> id \in AlertIds]]
    /\ UNCHANGED <<db_connected, store, store_skipped, cache_latest>>
    /\ ApiFrame

\* GET /api/alerts?limit=
ApiAlerts ==
    /\ \E limit \in Limits, ok \in BOOLEAN :
        LET r == get_alerts(Depends("routes.get_database_service", get_database_service),
                            limit, ok)
        IN  reply' = [op |-> "alerts", code |-> r.code, arg |-> limit, body |-> r.alerts]
    /\ UNCHANGED <<db_connected, store, store_skipped, cache_latest, acked>>
    /\ ApiFrame

\* GET /api/realtime and GET /api/system-status
ApiRealtime ==
    /\ reply' = [op |-> "realtime", code |-> 200, arg |-> 0, body |-> LatestTelemetry]
    /\ UNCHANGED <<db_connected, store, store_skipped, cache_latest, acked>>
    /\ ApiFrame

ApiSystemStatus ==
    /\ reply' = [op |-> "system_status", code |-> 200, arg |-> 0, body |-> SystemStatus]
    /\ UNCHANGED <<db_connected, store, store_skipped, cache_latest, acked>>
    /\ ApiFrame

\* ---- GET /diagnostics/soc-candidates
DiagReply(code, body) == [op |-> "diag", code |-> code, arg |-> 0, body |-> body]

\* diag_soc_candidates, up to its await and from it.  With no session object
\* `bms.connected` raises, which the handler turns into a 500.  With one, the
\* handler connects if need be and calls send_command (clear the buffer,
\* write, sleep 4 s), then scans the responses
DiagSocCandidates ==
    LET bms == Depends("routes.get_bms_service", get_bms_service)
    IN  /\ IF diag_pc = "wait"
           THEN /\ reply' = DiagReply(200, responses)
                /\ diag_pc' = "idle"
                /\ UNCHANGED <<connected, link_up, responses>>
           ELSE IF bms = None
           THEN /\ reply' = DiagReply(500, <<>>)
                /\ UNCHANGED <<diag_pc, connected, link_up, responses>>
           ELSE \E ok \in BOOLEAN :
                  IF ~connected /\ ~ok
                  THEN /\ reply' = DiagReply(200, <<>>)
                       /\ UNCHANGED <<diag_pc, connected, link_up, responses>>
                  ELSE /\ connected' = TRUE
                       /\ link_up' = (IF connected THEN link_up ELSE TRUE)
                       /\ responses' = <<>>
                       /\ diag_pc' = IF link_up' THEN "wait" ELSE "idle"
                       /\ reply' = IF link_up' THEN reply ELSE DiagReply(200, <<>>)
        /\ UNCHANGED <<read_count, error_count, last_read_time, acked, cache_status,
                       cache_history>>
        /\ UNCHANGED <<monVars, sinkVars, hubVars, connVars, callVars, sendVars>>

\* -------------------------------------------- BMSService.connect, stepwise
max_retries == 3

\* the import of utils.bms_auto_disconnect when the module is loaded
AUTO_DISCONNECT_AVAILABLE == TRUE

\* the parameter of connect(); every caller leaves it at its default
auto_disconnect == TRUE

ConnFrame ==
    /\ UNCHANGED <<link_up, responses, read_count, error_count, last_read_time>>
    /\ UNCHANGED <<monVars, sinkVars, hubVars, apiVars, callVars, sendVars>>

\* where the call goes on, what it returned, and self.connected
Stay(p) == [pc |-> p, ret |-> "none", flag |-> connected]

\* self.connected = True; return True
Succeeded == [pc |-> "idle", ret |-> "ok", flag |-> TRUE]

RoundEndMore(a, flag) ==
    IF a < max_retries THEN Stay("wait2")
    ELSE [pc |-> "idle", ret |-> "err", flag |-> flag]

\* `if attempt < max_retries - 1: sleep(2); continue`, else the call returns
\* False with self.connected = flag
RoundEnd(a, flag) ==
    IF a < max_retries - 1 THEN Stay("wait2")
    ELSE [pc |-> "idle", ret |-> "err", flag |-> flag]

\* the except clause of a round, up to its first await
Except(not_found) ==
    IF not_found
    THEN IF auto_disconnect /\ AUTO_DISCONNECT_AVAILABLE THEN Stay("helper")
         ELSE Stay("scan")
    ELSE RoundEnd(attempt, FALSE)

Goto(r) ==
    /\ conn_pc' = r.pc
    /\ conn_ret' = r.ret
    /\ connected' = r.flag

\* one more awaited call has returned; c: the client it connected, if any
Step(c) == [conn_obs EXCEPT !.steps = @ + 1, !.up = @ \cup c]

Did(what, c) == [Step(c) EXCEPT ![what] = @ + 1]

StartNotifyNone(c, ok) == notifying

\* await self.client.start_notify(self.read_char, ...)
StartNotify(c, ok) == IF ok THEN notifying \cup {c} ELSE notifying

\* await client.connect(...) returned: is_connected of that client
Connect(c, up) == IF up THEN linked \cup {c} ELSE linked

\* self.client = BleakClient(...): the k-th client a round can make; the
\* client it replaces is referenced no more
NewClient(a, k) == max_retries * a + k

Dropped(S) == S \ {client}

\* a caller finds self.connected false and calls connect(); the call runs to
\* its first await, the direct connect of a new client
ConnCall ==
    /\ conn_pc = "idle"
    /\ ~connected
    /\ conn_obs.calls < MaxCalls
    /\ conn_pc' = "direct"
    /\ attempt' = 0
    /\ client' = NewClient(0, 1)
    /\ linked' = Dropped(linked)
    /\ notifying' = Dropped(notifying)
    /\ conn_ret' = "none"
    /\ conn_obs' = [calls |-> conn_obs.calls + 1, direct |-> 0, helper |-> 0,
                    retry |-> 0, scan |-> 0, steps |-> 0, up |-> {}]
    /\ UNCHANGED connected
    /\ ConnFrame

\* the direct connect returns (connected or not) or raises
ConnDirect ==
    /\ conn_pc = "direct"
    /\ \E outcome \in {"up", "down", "not_found", "error"} :
          /\ linked' = Connect(client, outcome = "up")
          /\ Goto(CASE outcome = "up"   -> Stay("notify")
                    [] outcome = "down" -> RoundEnd(attempt, connected)
                    [] OTHER            -> Except(outcome = "not_found"))
    /\ conn_obs' = Did("direct", linked' \ linked)
    /\ UNCHANGED <<attempt, client, notifying>>
    /\ ConnFrame

\* start_notify on the directly connected client returns or raises
ConnNotify ==
    /\ conn_pc = "notify"
    /\ \E outcome \in {"ok", "not_found", "error"} :
          /\ notifying' = StartNotify(client, outcome = "ok")
          /\ Goto(IF outcome = "ok" THEN Succeeded ELSE Except(outcome = "not_found"))
    /\ conn_obs' = Step({})
    /\ UNCHANGED <<attempt, client, linked>>
    /\ ConnFrame

\* async_check_and_disconnect_bms returns its result or raises
ConnHelper ==
    /\ conn_pc = "helper"
    /\ \E result \in {"disconnect", "not_connected", "failed", "raise"} :
          Goto(IF result = "disconnect" THEN Stay("wait3") ELSE Stay("scan"))
    /\ conn_obs' = Did("helper", {})
    /\ UNCHANGED <<attempt, client, linked, notifying>>
    /\ ConnFrame

\* sleep(3) ends; a new client is made for the retry
ConnWait3 ==
    /\ conn_pc = "wait3"
    /\ client' = NewClient(attempt, 2)
    /\ linked' = Dropped(linked)
    /\ notifying' = Dropped(notifying)
    /\ Goto(Stay("retry"))
    /\ conn_obs' = Step({})
    /\ UNCHANGED attempt
    /\ ConnFrame

\* the retry after the helper returns or raises
ConnRetry ==
    /\ conn_pc = "retry"
    /\ \E outcome \in {"up", "down", "raise"} :
          /\ linked' = Connect(client, outcome = "up")
          /\ Goto(IF outcome = "up" THEN Stay("retry_notify") ELSE Stay("scan"))
    /\ conn_obs' = Did("retry", linked' \ linked)
    /\ UNCHANGED <<attempt, client, notifying>>
    /\ ConnFrame

ConnRetryNotify ==
    /\ conn_pc = "retry_notify"
    /\ \E ok \in BOOLEAN :
          /\ notifying' = StartNotify(client, ok)
          /\ Goto(IF ok THEN Succeeded ELSE Stay("scan"))
    /\ conn_obs' = Step({})
    /\ UNCHANGED <<attempt, client, linked>>
    /\ ConnFrame

\* find_device_by_address, then discover: a device, none, or an exception
ConnScan ==
    /\ conn_pc = "scan"
    /\ \E outcome \in {"found", "none", "raise"} :
          /\ client' = IF outcome = "found" THEN NewClient(attempt, 3) ELSE client
          /\ linked' = IF outcome = "found" THEN Dropped(linked) ELSE linked
          /\ notifying' = IF outcome = "found" THEN Dropped(notifying) ELSE notifying
          /\ Goto(IF outcome = "found" THEN Stay("scan_connect")
                  ELSE RoundEnd(attempt, FALSE))
    /\ conn_obs' = Did("scan", {})
    /\ UNCHANGED attempt
    /\ ConnFrame

ConnScanConnect ==
    /\ conn_pc = "scan_connect"
    /\ \E outcome \in {"up", "down", "raise"} :
          /\ linked' = Connect(client, outcome = "up")
          /\ Goto(IF outcome = "up" THEN Stay("scan_notify")
                  ELSE RoundEnd(attempt, FALSE))
    /\ conn_obs' = Step(linked' \ linked)
    /\ UNCHANGED <<attempt, client, notifying>>
    /\ ConnFrame

ConnScanNotify ==
    /\ conn_pc = "scan_notify"
    /\ \E ok \in BOOLEAN :
          /\ notifying' = StartNotify(client, ok)
          /\ Goto(IF ok THEN Succeeded ELSE RoundEnd(attempt, FALSE))
    /\ conn_obs' = Step({})
    /\ UNCHANGED <<attempt, client, linked>>
    /\ ConnFrame

\* sleep(2) ends; the next round starts with a new client
ConnWait2 ==
    /\ conn_pc = "wait2"
    /\ attempt' = attempt + 1
    /\ client' = NewClient(attempt + 1, 1)
    /\ linked' = Dropped(linked)
    /\ notifying' = Dropped(notifying)
    /\ Goto(Stay("direct"))
    /\ conn_obs' = [conn_obs EXCEPT !.direct = 0, !.helper = 0, !.retry = 0,
                                    !.scan = 0, !.steps = @ + 1]
    /\ ConnFrame

\* disconnect(), called by the teardown
BmsDisconnect ==
    /\ connected \/ client \in linked
    /\ linked' = linked \ {client}
    /\ connected' = FALSE
    /\ UNCHANGED <<conn_pc, attempt, client, notifying, conn_ret, conn_obs>>
    /\ ConnFrame

\* ---- the monitoring task as the caller of connect()
\* a task that starts reading as soon as connect() has returned True
MonConnectedNoWake ==
    /\ pc = "tick"
    /\ conn_pc = "idle"
    /\ conn_ret = "ok"
    /\ conn_ret' = "none"
    /\ link_up' = (client \in linked)
    /\ pc' = "read"
    /\ UNCHANGED <<connected, responses, read_count, error_count, last_read_time>>
    /\ UNCHANGED <<stage, cmd, data, success, tick, alerts, sent, obs>>
    /\ UNCHANGED <<conn_pc, attempt, client, linked, notifying, conn_obs>>
    /\ UNCHANGED <<sinkVars, hubVars, apiVars, callVars, sendVars>>

\* bms_monitoring_task lines 202-204: connect() returned True and the task
\* calls wake_bms, which sends its command as self.connected is set
MonConnected ==
    /\ pc = "tick"
    /\ conn_pc = "idle"
    /\ conn_ret = "ok"
    /\ conn_ret' = "none"
    /\ link_up' = (client \in linked)
    /\ pc' = "send"
    /\ stage' = "wake"
    /\ UNCHANGED <<connected, responses, read_count, error_count, last_read_time>>
    /\ UNCHANGED <<cmd, data, success, tick, alerts, sent, obs>>
    /\ UNCHANGED <<conn_pc, attempt, client, linked, notifying, conn_obs>>
    /\ UNCHANGED <<sinkVars, hubVars, apiVars, callVars, sendVars>>

\* line 211: read_bms_data is called when wake_bms has returned
MonFirstRead ==
    /\ pc = "read"
    /\ MonStartRead

\* ---- send_command on its own
SendFrame == UNCHANGED <<monVars, sinkVars, hubVars, connVars, apiVars, callVars>>

\* a buffer that is not emptied
responses_keep(buf) == buf

\* self.responses.clear()
responses_clear(buf) == <<>>

\* self.responses.copy(): the caller's list is its own
responses_copy(buf) == buf

\* what the device may notify, asked or not
SendNotifications == Frames[CommandFor("tv")] \ {CommandFor("tv")}

\* lines 218-226: the buffer is cleared and write_gatt_char is awaited
SendCall ==
    /\ send_pc = "idle"
    /\ Len(returned) < MaxSends
    /\ responses' = responses_clear(responses)
    /\ window' = <<>>
    /\ send_pc' = "write"
    /\ UNCHANGED <<connected, link_up, read_count, error_count, last_read_time, returned>>
    /\ SendFrame

\* write_gatt_char returns, or raises and [] is returned (lines 235-237)
SendWrite ==
    /\ send_pc = "write"
    /\ IF link_up
       THEN send_pc' = "sleep" /\ UNCHANGED returned
       ELSE send_pc' = "idle" /\ returned' = Append(returned, <<>>)
    /\ UNCHANGED <<bmsVars, window>>
    /\ SendFrame

\* asyncio.sleep(timeout) ends: return self.responses.copy()
SendSleepEnds ==
    /\ send_pc = "sleep"
    /\ send_pc' = "idle"
    /\ returned' = Append(returned, responses_copy(responses))
    /\ UNCHANGED <<bmsVars, window>>
    /\ SendFrame

\* notification_handler runs whenever the device notifies, inside a call of
\* send_command or between two calls
SendNotify ==
    /\ link_up
    /\ Len(responses) < MaxResponses
    /\ \E f \in SendNotifications :
          /\ responses' = Append(responses, f)
          /\ window' = IF send_pc = "idle" THEN window ELSE Append(window, f)
    /\ UNCHANGED <<connected, link_up, read_count, error_count, last_read_time>>
    /\ UNCHANGED <<send_pc, returned>>
    /\ SendFrame

\* the BLE link is lost
SendLinkLost ==
    /\ link_up
    /\ link_up' = FALSE
    /\ UNCHANGED <<connected, responses, read_count, error_count, last_read_time>>
    /\ UNCHANGED sendVars
    /\ SendFrame

\* ------------------------------------------ the pure functions on their own
CallFrame == UNCHANGED <<bmsVars, monVars, sinkVars, hubVars, connVars, apiVars, sendVars>>

\* one application per run
Fresh == call.fn = "none"

\* fn(arg) = out
Called(fn, arg, out) == call' = [fn |-> fn, arg |-> arg, out |-> out]

SeqsUpTo(S, n) == UNION {[1 .. k -> S] : k \in 0 .. n}

\* raw * 0.1 of the total-voltage register, in tenths of a volt
Voltages == 0 .. 320

\* raw * 0.001 of a cell register, in millivolts, around the thresholds
CellValues == {2999, 3000, 3001, 3800, 3801}

\* check_alerts(data) on a record with or without total_voltage and cells
CallCheckAlerts ==
    /\ Fresh
    /\ \E has_v \in BOOLEAN, v \in Voltages, cells \in SeqsUpTo(CellValues, MaxCells) :
          LET d0 == [timestamp |-> 1]
              d1 == IF has_v THEN Put(d0, "total_voltage", v) ELSE d0
              d  == IF cells # <<>> THEN Put(d1, "cells", cells) ELSE d1
          IN  Called("check_alerts", d, check_alerts(d))
    /\ CallFrame

\* read_individual_registers lines 487-558 on the responses of its four
\* sends, resps[stage], starting from record d: one operator per send
ReadVoltage(resps, d) ==
    LET tvp == ParseAll(CommandFor("tv"), resps["tv"])
        tvk == FirstParsed(CommandFor("tv"), resps["tv"], tvp, "total_voltage", 1)
    IN  IF tvk = 0 THEN d ELSE Put(d, "total_voltage", tvp[tvk].total_voltage)

ReadCurrent(resps, d) ==
    LET cp == ParseAll(CommandFor("cur"), resps["cur"])
        ck == FirstParsed(CommandFor("cur"), resps["cur"], cp, "current", 1)
    IN  IF ck = 0 THEN d
        ELSE Put(Put(d, "current", cp[ck].current),
                 "current_direction", cp[ck].current_direction)

ReadTemps(resps, d) ==
    LET ta == TempLoop(CommandFor("temp"), resps["temp"], 1, EmptyDict)
    IN  IF ta = EmptyDict THEN d
        ELSE Put(Put(d, "temperatures", ta.temps), "temperature", AvgTemp(ta.temps))

ReadSoc(resps, d) ==
    LET sa == SocLoop(CommandFor("soc"), resps["soc"], 1, EmptyDict)
    IN  IF sa = EmptyDict THEN d ELSE Put(d, "soc", sa.soc)

ReadStage(s, resps, d) ==
    CASE s = "tv"   -> ReadVoltage(resps, d)
      [] s = "cur"  -> ReadCurrent(resps, d)
      [] s = "temp" -> ReadTemps(resps, d)
      [] s = "soc"  -> ReadSoc(resps, d)

\* the sends in their order; success = True as soon as one of them stored a
\* field, so the call returns True iff the record changed
RECURSIVE ReadStages(_, _, _, _)
ReadStages(stages, resps, d0, d) ==
    IF stages = <<>> THEN [ok |-> d # d0, data |-> d]
    ELSE ReadStages(Tail(stages), resps, d0, ReadStage(Head(stages), resps, d))

read_individual_registers(resps, d) ==
    ReadStages(<< "tv", "cur", "temp", "soc" >>, resps, d, d)

\* the device answers every read from one register snapshot
AnswersOf(snap) ==
    [s \in {"bulk", "tv", "cur", "temp", "soc"} |->
        << Answer(snap, CmdAddr(CommandFor(s)), CmdCount(CommandFor(s))) >>]

\* the bulk extraction and the per-register reads on one snapshot, evaluated
\* once for each snapshot
ReadPaths ==
    [snap \in {SnapOK, SnapLow, SnapZeroV} |->
        LET resps == AnswersOf(snap)
            bulkc == CommandFor("bulk")
        IN  [bulk |-> BulkLoop(bulkc, resps["bulk"], ParseAll(bulkc, resps["bulk"]),
                               EmptyDict, 1),
             individual |-> read_individual_registers(resps, EmptyDict)]]

CallReadPaths ==
    /\ Fresh
    /\ \E snap \in DOMAIN ReadPaths : Called("read_paths", snap, ReadPaths[snap])
    /\ CallFrame

\* read_bms_data lines 340-389 on a connected session, given the responses
\* of its sends: the bulk read, the per-register reads when the bulk read
\* stored nothing, then the final step; r is (success, data) so far
RECURSIVE ReadBmsSteps(_, _, _)
ReadBmsSteps(step, resps, r) ==
    IF step = "bulk"
    THEN ReadBmsSteps("individual", resps,
                      BulkLoop(CommandFor("bulk"), resps["bulk"],
                               ParseAll(CommandFor("bulk"), resps["bulk"]), r.data, 1))
    ELSE IF step = "individual"
    THEN ReadBmsSteps("final", resps,
                      IF r.ok THEN r ELSE read_individual_registers(resps, r.data))
    ELSE Finalize(r.data, r.ok)

read_bms_data(resps) == ReadBmsSteps("bulk", resps, [ok |-> FALSE, data |-> EmptyDict])

\* register values around the guards: total voltage 0 (not stored by the bulk
\* read), below, inside and above the estimate's range; soc at and past 100 %
RawVoltages == {0, 239, 265, 300}
RawSocs     == {0, 800, 1000, 1001, 65535}
RawAmps     == {29950, 30000}

\* read_bms_data() with a device that answers the reads in `answered` from
\* one register snapshot and stays silent on the others
CallReadBmsData ==
    /\ Fresh
    /\ \E v \in RawVoltages, c \in RawAmps, soc \in RawSocs :
       \E answered \in SUBSET {"bulk", "tv", "cur", "temp", "soc"} :
          LET all   == AnswersOf(Snapshot(v, c, soc, 3300, 2974))
              resps == [s \in DOMAIN all |-> IF s \in answered THEN all[s] ELSE <<>>]
          IN  Called("read_bms_data",
                     [voltage |-> v, current |-> c, soc |-> soc, answered |-> answered],
                     read_bms_data(resps))
    /\ CallFrame

\* estimate_soc(voltage) on the voltages raw * 0.1
CallEstimateSoc ==
    /\ Fresh
    /\ \E v \in Voltages : Called("estimate_soc", v, estimate_soc(v))
    /\ CallFrame

\* the values of a 16-bit register around the zero point of the current
RawCurrents == 0 .. MaxRaw

\* the current register decoded by parse_register_data (the per-register
\* read) and by extract_from_large_response (the bulk read)
CallDecodeCurrent ==
    /\ Fresh
    /\ \E raw \in RawCurrents :
          LET bytes == RegBytes(Snapshot(265, raw, 800, 3300, 2974), 0, BulkCount)
          IN  Called("decode_current", raw,
                     [register |-> parse_register_data(RegCurrent, << raw \div 256, raw % 256 >>),
                      bulk |-> extract_from_large_response([raw_data |-> bytes], EmptyDict).data])
    /\ CallFrame

\* frames next to those of the device: cut short, with another function
\* code, and with bytes after the declared payload and CRC
OddFrames(command) ==
    LET a == Answer(SnapOK, CmdAddr(command), CmdCount(command))
    IN  { SubSeq(a, 1, 4), [a EXCEPT ![2] = 4], SubSeq(a, 1, Len(a) - 3), a \o << 0 >> }

\* parse_modbus_response(command, response)
CallParseResponse ==
    /\ Fresh
    /\ \E c \in Commands : \E f \in Frames[c] \cup OddFrames(c) :
          Called("parse_modbus_response", [command |-> c, response |-> f], Parse(c, f))
    /\ CallFrame

\* build_modbus_command(register_addr, num_registers): the registers the
\* service reads and the ends of both address bytes, every count up to MaxCount
MaxCount  == 125
Addresses == {0, RegVoltage, RegCurrent, RegTemp, RegSoc, 255, 256, 65535}

CallBuildCommand ==
    /\ Fresh
    /\ \E a \in Addresses : \E n \in 1 .. MaxCount :
          Called("build_modbus_command", [register_addr |-> a, num_registers |-> n],
                 build_modbus_command(a, n))
    /\ CallFrame

\* ---- the system-disconnect helper (utils/bms_auto_disconnect.py) and its
\* command-line tool (tools/bms_disconnect.py).  The OS Bluetooth control
\* tool is an input: what `info` reports each time it is asked, and how each
\* `disconnect` command ends.
\* check_device_status: "connected" / "not_connected" are parsed from a
\* successful `info`; "not_available" is a failed `info` whose output says so
\* (available = False, error set); "error" is any other failure (error set,
\* connected and available left at their defaults False and True)
InfoOutcomes == {"connected", "not_connected", "not_available", "error"}

\* bluetoothctl disconnect: exit status 0, a failure whose output says
\* "not connected", any other failure
DisconnectOutcomes == {"ok", "not_connected", "fail"}

MaxRetries == 3

StatusConnected(info) == info = "connected"
StatusAvailable(info) == info # "not_available"
StatusError(info)     == info \in {"not_available", "error"}

\* disconnect_device lines 88-127 from attempt k on; script[k] is the outcome
\* of the k-th disconnect command and of the `info` that verifies it;
\* commands counts the disconnect commands issued
RECURSIVE disconnect_device(_, _)
disconnect_device(script, k) ==
    IF k > MaxRetries THEN [ok |-> FALSE, commands |-> MaxRetries]
    ELSE IF script[k].cmd = "ok" /\ ~StatusConnected(script[k].info)
    THEN [ok |-> TRUE, commands |-> k]
    ELSE IF script[k].cmd = "not_connected"
    THEN [ok |-> TRUE, commands |-> k]
    ELSE disconnect_device(script, k + 1)

\* a helper that sends the disconnect command whatever `info` reported
auto_disconnect_always(info0, script, final) ==
    LET dis == disconnect_device(script, 1)
    IN  [initial_connected |-> StatusConnected(info0), action_taken |-> "disconnect",
         final_connected |-> StatusConnected(final),
         success |-> dis.ok /\ ~StatusConnected(final),
         available |-> StatusAvailable(info0), commands |-> dis.commands]

\* auto_disconnect_if_connected lines 129-184: the result dict (message and
\* the name left out), with the number of disconnect commands issued
auto_disconnect_if_connected(info0, script, final) ==
    LET result == [initial_connected |-> StatusConnected(info0), action_taken |-> "none",
                   final_connected |-> FALSE, success |-> FALSE,
                   available |-> StatusAvailable(info0), commands |-> 0]
        dis    == disconnect_device(script, 1)
    IN  IF ~StatusAvailable(info0) THEN [result EXCEPT !.success = TRUE]
        ELSE IF StatusError(info0) THEN result
        ELSE IF ~StatusConnected(info0) THEN [result EXCEPT !.success = TRUE]
        ELSE [result EXCEPT !.action_taken = "disconnect",
                            !.final_connected = StatusConnected(final),
                            !.success = dis.ok /\ ~StatusConnected(final),
                            !.commands = dis.commands]

\* --check-only, lines 146-163: the result the tool builds itself
check_only(info0) ==
    [initial_connected |-> StatusConnected(info0), action_taken |-> "check_only",
     final_connected |-> StatusConnected(info0), success |-> ~StatusError(info0),
     available |-> StatusAvailable(info0), commands |-> 0]

\* main lines 140-207: event is what happens inside the try block besides the
\* helper's own work: nothing, Ctrl-C (KeyboardInterrupt), or an exception
\* while the result is printed
Events == {"none", "interrupt", "exception"}

main(result, event) ==
    IF event = "interrupt" THEN 130
    ELSE IF event = "exception" THEN 1
    ELSE IF result.success THEN 0 ELSE 1

Scripts == [1 .. MaxRetries -> [cmd : DisconnectOutcomes, info : {"connected", "not_connected"}]]

\* the tool run once: with or without --check-only, against every behaviour
\* of the control tool
CallDisconnectTool ==
    /\ Fresh
    /\ \E info0 \in InfoOutcomes, final \in {"connected", "not_connected"}, event \in Events,
          only \in BOOLEAN, script \in Scripts :
          LET result == IF only THEN check_only(info0)
                        ELSE auto_disconnect_if_connected(info0, script, final)
          IN  Called("bms_disconnect",
                     [info |-> info0, check_only |-> only, event |-> event],
                     [result |-> result, exit |-> main(result, event)])
    /\ CallFrame

\* --------------------------------------------------------- specifications
InitBms ==
    /\ connected = FALSE
    /\ link_up = FALSE
    /\ responses = <<>>
    /\ read_count = 0
    /\ error_count = 0
    /\ last_read_time = 0

InitMon ==
    /\ pc = "tick"
    /\ stage = "wake"
    /\ cmd = <<>>
    /\ data = EmptyDict
    /\ success = FALSE
    /\ tick = 0
    /\ alerts = <<>>
    /\ sent = <<>>
    /\ obs = NewObs(0, 0, FALSE)

\* lifespan startup: the database must connect, cache and pub/sub may fail;
\* the listener is started only when pub/sub connected
InitSinks(cache_ok, mqtt_ok) ==
    /\ db_connected = TRUE
    /\ cache_connected = cache_ok
    /\ mqtt_connected = mqtt_ok
    /\ store = <<>>
    /\ cache_latest = EmptyDict
    /\ store_skipped = {}
    /\ broker = <<>>
    /\ published = <<>>
    /\ lis_pc = IF mqtt_ok THEN "idle" ELSE "off"
    /\ lis_msg = EmptyDict
    /\ mon_msg = EmptyDict
    /\ teardown = 0

\* `n` clients have connected and been welcomed
InitHub(n) ==
    /\ active_connections = [i \in 1 .. n |-> i]
    /\ client_info = 1 .. n
    /\ ep = [w \in Sockets |-> IF w <= n THEN "recv" ELSE "new"]
    /\ closed = [w \in Sockets |-> FALSE]
    /\ recv = [w \in Sockets |-> {}]
    /\ rounds = [c \in Callers |-> IdleRound]
    /\ refused = [w \in Sockets |-> {}]
    /\ next_msg = 1

InitConn ==
    /\ conn_pc = "idle"
    /\ attempt = 0
    /\ client = 0
    /\ linked = {}
    /\ notifying = {}
    /\ conn_ret = "none"
    /\ conn_obs = [calls |-> 0, direct |-> 0, helper |-> 0, retry |-> 0, scan |-> 0,
                   steps |-> 0, up |-> {}]

InitSend ==
    /\ send_pc = "idle"
    /\ returned = <<>>
    /\ window = <<>>

InitCall == call = [fn |-> "none", arg |-> <<>>, out |-> <<>>]

InitApi ==
    /\ acked = {}
    /\ cache_status = EmptyDict
    /\ cache_history = {}
    /\ diag_pc = "idle"
    /\ reply = NoReply

\* the whole pipeline, with a device that answers bulk reads or stays silent
Init ==
    /\ InitBms /\ InitMon /\ (\E c, m \in BOOLEAN : InitSinks(c, m)) /\ InitHub(1)
    /\ InitConn /\ InitApi /\ InitCall /\ InitSend

Next ==
    \/ MonConnect \/ MonStartRead \/ MonSend \/ MonReturn \/ MonGap \/ NotifyGood
    \/ MonEmit \/ MonEmit2 \/ MonAlert \/ MonStore \/ MonCache \/ MonBroadcast
    \/ MonHandled \/ MonSleep
    \/ LisTake \/ LisStore \/ LisCache \/ LisBroadcast \/ LisHandled \/ ListenerDies
    \/ SendReturns("mon") \/ SendReturns("lis")
    \/ Teardown
    \/ DiagSocCandidates

Spec == Init /\ [][Next]_vars

\* acquisition: any frame may arrive, the link may drop; no pub/sub, no cache
InitAcq ==
    /\ InitBms /\ InitMon /\ InitSinks(FALSE, FALSE) /\ InitHub(0)
    /\ InitConn /\ InitApi /\ InitCall /\ InitSend

NextAcq ==
    \/ MonConnect \/ MonStartRead \/ MonSend \/ MonReturn \/ MonGap \/ NotifyAny
    \/ LinkDrop
    \/ MonEmit \/ MonAlert \/ MonStore \/ MonCache \/ MonBroadcast
    \/ MonHandled \/ MonSleep

SpecAcq == InitAcq /\ [][NextAcq]_vars

\* the hub alone: clients come and go while rounds run
InitHubOnly ==
    /\ InitBms /\ InitMon /\ InitSinks(FALSE, FALSE) /\ InitHub(0)
    /\ InitConn /\ InitApi /\ InitCall /\ InitSend

NextHub ==
    \/ \E w \in Sockets : Accept(w)
    \/ \E w \in Sockets : PeerClose(w)
    \/ \E w \in Sockets : EndpointExit(w)
    \/ BroadcastCall("mon") \/ BroadcastCall("lis") \/ Heartbeat
    \/ \E c \in Callers : SendReturns(c)

SpecHub == InitHubOnly /\ [][NextHub]_vars

\* the operations of the hub on its two collections: endpoints that accept,
\* answer with personal messages and exit, one task that broadcasts and the
\* heartbeat task
NextHubOps ==
    \/ \E w \in Sockets : Accept(w)
    \/ \E w \in Sockets : PeerClose(w)
    \/ \E w \in Sockets : PersonalSend(w)
    \/ \E w \in Sockets : EndpointExit(w)
    \/ BroadcastCall("mon") \/ Heartbeat
    \/ \E c \in Callers : SendReturns(c)

SpecHubOps == InitHubOnly /\ [][NextHubOps]_vars


\* the store operations and the query interface
InitApiOnly ==
    /\ InitBms /\ InitMon /\ InitSinks(FALSE, FALSE) /\ InitHub(0)
    /\ InitConn /\ InitApi /\ InitCall /\ InitSend

NextApi ==
    \/ DbSaveData \/ DbSaveAlert \/ DbAcknowledge \/ DbActiveAlerts \/ DbCleanup \/ DbClose
    \/ ApiAcknowledge \/ ApiAlerts \/ ApiRealtime \/ ApiSystemStatus

SpecApi == InitApiOnly /\ [][NextApi]_vars


\* the monitoring task between two awaits, and the send_text calls it awaits
MonTask ==
    \/ MonConnect \/ MonStartRead \/ MonSend \/ MonGap
    \/ MonEmit \/ MonEmit2 \/ MonAlert \/ MonStore \/ MonCache \/ MonBroadcast
    \/ MonHandled \/ MonSleep
    \/ SendReturns("mon")

\* the pipeline without a shutdown
NextLoop ==
    \/ MonTask \/ MonReturn
    \/ NotifyGood
    \/ LisTake \/ LisStore \/ LisCache \/ LisBroadcast \/ LisHandled \/ ListenerDies
    \/ SendReturns("lis")

\* the sleep inside send_command ends.  MonReturn is enabled exactly when the
\* task is in that sleep and every MonReturn step leaves it, so this is weak
\* fairness of MonReturn, written without its enabling predicate
SleepEnds == []<>(pc # "wait")

\* the event loop runs the monitoring task whenever it can go on: its sleeps
\* end and the calls it awaits return
SpecLoop == Init /\ [][NextLoop]_vars /\ WF_vars(MonTask) /\ SleepEnds


\* connect() alone: the awaited calls of a running connect() return or raise
ConnStep ==
    \/ ConnDirect \/ ConnNotify \/ ConnHelper \/ ConnWait3 \/ ConnRetry
    \/ ConnRetryNotify \/ ConnScan \/ ConnScanConnect \/ ConnScanNotify \/ ConnWait2

InitConnOnly ==
    /\ InitBms /\ InitMon /\ InitSinks(FALSE, FALSE) /\ InitHub(0)
    /\ InitConn /\ InitApi /\ InitCall /\ InitSend

NextConn == ConnCall \/ ConnStep \/ BmsDisconnect

SpecConn == InitConnOnly /\ [][NextConn]_vars /\ WF_vars(ConnStep)


\* the first tick: the monitoring task calls connect(), whose awaited calls
\* return or raise, then wakes the device and reads it; connect() is called
\* again (after the sleep of line 207) when it returned False
InitBoot ==
    /\ InitBms /\ InitMon /\ InitSinks(FALSE, FALSE) /\ InitHub(0)
    /\ InitConn /\ InitApi /\ InitCall /\ InitSend

NextBoot ==
    \/ ConnCall \/ ConnStep
    \/ MonConnected \/ MonFirstRead \/ MonSend \/ MonReturn \/ MonGap \/ NotifyGood

SpecBoot == InitBoot /\ [][NextBoot]_vars


\* send_command on a connected session, called by one task at a time
InitSendOnly ==
    /\ connected = TRUE /\ link_up = TRUE /\ responses = <<>>
    /\ read_count = 0 /\ error_count = 0 /\ last_read_time = 0
    /\ InitMon /\ InitSinks(FALSE, FALSE) /\ InitHub(0)
    /\ InitConn /\ InitApi /\ InitCall /\ InitSend

NextSend == SendCall \/ SendWrite \/ SendSleepEnds \/ SendNotify \/ SendLinkLost

SpecSend == InitSendOnly /\ [][NextSend]_vars


\* the pure functions, each applied to inputs of its domain
InitFn ==
    /\ InitBms /\ InitMon /\ InitSinks(FALSE, FALSE) /\ InitHub(0)
    /\ InitConn /\ InitApi /\ InitCall /\ InitSend

NextFn ==
    \/ CallCheckAlerts
    \/ CallReadPaths
    \/ CallReadBmsData
    \/ CallDisconnectTool
    \/ CallEstimateSoc
    \/ CallDecodeCurrent
    \/ CallParseResponse
    \/ CallBuildCommand

SpecFn == InitFn /\ [][NextFn]_vars

\* ------------------------------------------------------------------ claims
\* the record returned by the read of the current tick, as a message
Record == Message("realtime", data)

\* the store step has run for msg (the row was appended, or the append failed
\* or was skipped)
Handled(msg) == msg \in SeqSet(store) \cup store_skipped

\* the tick is over and pub/sub holds nothing that is still to be delivered
Quiet ==
    /\ pc = "sleep"
    /\ broker = <<>>
    /\ lis_pc \in {"idle", "off"}
    /\ \A c \in Callers : ~rounds[c].active

\* C1: every record returned by a successful acquisition reaches the store
\* step, the cache step and the hub, whether or not its publish succeeded.
\* Stated on finite runs: once the tick is over and nothing is in flight
\* (startup state of the sinks, no teardown), the record has been handled
\* and sent to the connected client.
C1_Delivered ==
    (Quiet /\ teardown = 0 /\ obs.emitted > 0)
        => (Handled(Record) /\ Record \in recv[1])

\* C2: a failed BLE write makes the session leave the connected state.
\* Stated on finite runs: at the end of a tick in which a write failed the
\* connected flag is clear (so that the next tick calls connect()).
C2_LeavesConnected ==
    (pc = "sleep" /\ obs.write_failed) => ~connected

\* C3: a tick that starts its read with the session connected hands exactly
\* one record to the fan-out, also when the acquisition failed.
C3_OneRecord ==
    (pc = "sleep" /\ obs.read_connected) => obs.emitted = 1

\* C4: no field of an emitted record comes from a frame that fails a codec
\* check (obs.tainted holds the fields taken from such frames).
C4_NoInvalidFrame ==
    obs.emitted > 0 => obs.tainted = {}

\* C5: a subscriber is sent the record of a tick before any alert derived
\* from it, so whoever holds an alert of a tick holds that tick's record.
C5_TelemetryFirst ==
    \A m \in recv[1] :
        m.topic = "alerts" =>
            \E r \in recv[1] : r.topic = "realtime" /\ r.data.timestamp = m.data.timestamp

\* C6 as stated: whenever the cache holds a record, that record is a row of
\* the store.
C6_InStore ==
    cache_latest # EmptyDict => Message("realtime", cache_latest) \in SeqSet(store)

\* C6, amended: the cache write for a record comes after the store step for
\* that record, whatever the step's outcome: a cached record is a row of the
\* store unless its append failed or was skipped.
C6_StoreStepFirst ==
    cache_latest # EmptyDict => Handled(Message("realtime", cache_latest))

\* a record is in the cache although its append to the store failed
C6_Witness ==
    /\ cache_latest # EmptyDict
    /\ Message("realtime", cache_latest) \in store_skipped
    /\ Message("realtime", cache_latest) \notin SeqSet(store)

\* ---- rounds of the hub
Count(w, q) == Cardinality({ i \in 1 .. Len(q) : q[i] = w })

\* the round of caller c ends in this step
Ends(c) == rounds[c].active /\ ~rounds'[c].active

\* the round of caller c goes on to its next element in this step
GoesOn(c) ==
    /\ rounds[c].active
    /\ rounds'[c].active
    /\ Len(rounds'[c].attempted) = Len(rounds[c].attempted) + 1

\* C7: every subscriber that is in the list for the whole of a round is sent
\* the round's message exactly once.
C7_ExactlyOnce ==
    [][\A c \in Callers :
          Ends(c) => \A w \in rounds[c].stable :
                        Count(w, Append(rounds[c].attempted, rounds[c].cur)) = 1]_vars

\* C8 as stated: a subscriber whose send failed stays in the list until the
\* round has ended.
C8_StaysListed ==
    \A c \in Callers :
        rounds[c].active =>
            \A i \in 1 .. Len(rounds[c].failed) :
                InList(active_connections, rounds[c].failed[i])

\* C8, amended: the round itself removes nobody before its loop has ended
\* (another task's disconnect may); when the round ends, the subscribers
\* whose send failed are not in the list; the round sends its message to no
\* subscriber that has refused it; and a subscriber that has refused a
\* message is sent nothing successfully afterwards.
C8_RemovedAtEnd ==
    [][/\ \A c \in Callers :
            /\ GoesOn(c) => active_connections' = active_connections
            /\ Ends(c) =>
                 \A w \in Sockets :
                    (InList(rounds[c].failed, w) \/ (w = rounds[c].cur /\ closed[w]))
                        => ~InList(active_connections', w)
            /\ (GoesOn(c) \/ Ends(c)) => rounds[c].msg \notin refused[rounds[c].cur]
       /\ \A w \in Sockets : recv'[w] # recv[w] => refused[w] = {}]_vars

\* a send to w failed, the round has ended and w is gone from the list, and
\* a later round has delivered its message to another subscriber
C8_Witness ==
    /\ \A c \in Callers : ~rounds[c].active
    /\ \E w, v \in Sockets :
        /\ w # v
        /\ ~InList(active_connections, w)
        /\ \E f \in refused[w], m \in recv[v] : m.data.timestamp > f.data.timestamp

\* C9: a tick whose bulk response fails the CRC check and that gets no valid
\* response counts one read error, no read, fires no alert and stays connected.
C9_CountsError ==
    (pc = "sleep" /\ obs.bulk_crc_failed /\ ~obs.any_valid)
        => /\ error_count = obs.err0 + 1
           /\ read_count = obs.ok0
           /\ obs.fired = 0
           /\ connected

\* the commands of the current read, in the order they were written
Reads == SelectSeq(sent, LAMBDA st : st # "wake")

\* C10: when the bulk read yields no total_voltage, the four per-register
\* reads are issued, in order, before the record is finalized.
C10_Fallback ==
    (pc \in {"emit", "sleep"} /\ obs.read_connected /\ ~obs.bulk_tv)
        => Reads = <<"bulk", "tv", "cur", "temp", "soc">>

\* C11: once the fan-out has written a record to the cache or to the store,
\* the latest_telemetry handler of the application returns that record: the
\* cached record on a cache hit, else the newest row of the store.
C11_LatestReturned ==
    /\ (cache_connected /\ cache_latest # EmptyDict)
          => LatestTelemetry.body = cache_latest
    /\ (~(cache_connected /\ cache_latest # EmptyDict) /\ get_latest_battery_data # <<>>)
          => LatestTelemetry.body = FromRow(get_latest_battery_data[1])

\* C12: after a successful acquisition the system_status query returns a
\* record whose read count is at least 1 and is a value the counter has had.
C12_StatusEmitted ==
    read_count >= 1
        => /\ SystemStatus.body.read_count >= 1
           /\ SystemStatus.body.read_count <= read_count

\* C13: acknowledging an existing alert returns success on every call and
\* leaves the alert acknowledged (the store being available).
C13_AckSucceeds ==
    (reply.op = "acknowledge" /\ reply.body.existed /\ reply.body.available)
        => (reply.code = 200 /\ reply.arg \in acked)

\* C14: an alert row is created unacknowledged and is never changed or
\* deleted, except that its acknowledged flag goes from false to true, and
\* only by an acknowledge call on its own id.
C14_AckOnly ==
    [][/\ Len(AlertRows') >= Len(AlertRows)
       /\ \A i \in AlertIds : AlertRows'[i] = AlertRows[i]
       /\ \A i \in 1 .. Len(AlertRows') : i \notin AlertIds => i \notin acked'
       /\ acked \subseteq acked'
       /\ \A i \in acked' \ acked :
            reply'.op \in {"db_acknowledge", "acknowledge"} /\ reply'.arg = i]_vars

\* one alert has been acknowledged, another one is still active
C14_Witness ==
    /\ acked # {}
    /\ \E i \in AlertIds : i \notin acked
    /\ reply.op = "cleanup"

\* C15: the acknowledge request answers 404 exactly when the store is
\* available and holds no alert with the id, answers 5xx and never 404 when
\* the store is unavailable or fails, and changes no row unless it succeeds.
C15_NotFoundIff ==
    [][reply'.op = "acknowledge"
          => /\ reply'.code = 404 <=> (reply'.body.available /\ ~reply'.body.existed)
             /\ ~reply'.body.available => reply'.code >= 500
             /\ reply'.code # 200 => (acked' = acked /\ store' = store)]_vars

\* C16: an alerts query returns at most `limit` alerts, all of them
\* unacknowledged when the query runs, newest first; as an acknowledgment is
\* never undone (C14), an acknowledged alert is in no later result.
C16_ActiveOnly ==
    [][reply'.op \in {"db_alerts", "alerts"}
          => LET b == reply'.body
             IN  /\ Len(b) <= reply'.arg
                 /\ \A i \in 1 .. Len(b) :
                        /\ b[i].id \in AlertIds
                        /\ b[i].id \notin acked
                        /\ ~b[i].acknowledged
                 /\ \A i, j \in 1 .. Len(b) : i < j => b[i].id > b[j].id]_vars

\* a query has returned the active alert while another one was acknowledged
C16_Witness ==
    /\ reply.op = "db_alerts"
    /\ reply.body # <<>>
    /\ acked # {}

\* C17: once the teardown has called disconnect on the transport
\* (teardown >= 3), the monitoring task starts no new tick: from the top of
\* its loop it neither connects nor starts a read.
C17_NoNewTick ==
    [][(teardown >= 3 /\ pc = "tick") => (pc' = "tick" /\ ~connected')]_vars

\* C18: the polling loop is never ended by a failure: whatever happens in a
\* tick (connect failure, empty acquisition, failed write, sink failure), the
\* task comes back to the top of its loop, again and again.
C18_LoopGoesOn == []<>(pc = "tick")

\* the task is back at the top of its loop after a tick in which the append
\* to the store failed
C18_Witness ==
    /\ pc = "tick"
    /\ tick >= 1
    /\ store_skipped # {}

\* ---- connect()
\* what a call of connect() has done so far stays within the round structure
C19_Rounds ==
    /\ attempt < max_retries
    /\ conn_obs.direct <= 1
    /\ conn_obs.helper <= 1
    /\ conn_obs.retry <= conn_obs.helper
    /\ conn_obs.scan <= 1
    /\ conn_obs.steps <= 10 * max_retries
    /\ conn_pc # "idle" => conn_ret = "none"
    /\ (conn_pc = "idle" /\ conn_obs.calls >= 1) => conn_ret \in {"ok", "err"}

\* C19: a call of connect() performs at most max_retries rounds, each with at
\* most one direct connect, at most one helper invocation followed by at
\* most one retry, and at most one scan; and every call returns, ok or err
C19_Terminates == [](C19_Rounds) /\ ((conn_pc # "idle") ~> (conn_pc = "idle"))

\* a call that went through the helper, the retry and the scan in its last
\* round has returned err
C19_Witness ==
    /\ conn_pc = "idle"
    /\ conn_ret = "err"
    /\ attempt = max_retries - 1
    /\ conn_obs.helper = 1
    /\ conn_obs.retry = 1
    /\ conn_obs.scan = 1

\* C20: when connect() returns, it returns ok exactly if self.connected is
\* true; self.connected becomes true only in a returning step of connect(),
\* with notifications enabled on the current client, which that call has
\* connected
C20_FlagIffOk ==
    [][/\ (conn_pc # "idle" /\ conn_pc' = "idle") =>
            /\ conn_ret' \in {"ok", "err"}
            /\ (conn_ret' = "ok") <=> connected'
       /\ (connected' /\ ~connected) =>
            /\ conn_pc # "idle" /\ conn_pc' = "idle" /\ conn_ret' = "ok"
            /\ client' = client
            /\ client \in conn_obs'.up
            /\ client \in notifying' \ notifying]_vars

\* a second call, after a disconnect, has connected through the scan
C20_Witness ==
    /\ conn_pc = "idle"
    /\ conn_ret = "ok"
    /\ connected
    /\ conn_obs.calls = MaxCalls
    /\ conn_obs.scan = 1
    /\ client \in notifying

OfType(out, t) == SelectSeq(out, LAMBDA a : a.type = t)

\* C22: a record with total_voltage v gets exactly one total-voltage alert by
\* band: critical below 24.0, warning in [24.0, 25.6), critical above 30.4,
\* and none in [25.6, 30.4]
C22_Bands ==
    (call.fn = "check_alerts" /\ Has(call.arg, "total_voltage")) =>
        LET v  == call.arg.total_voltage
            va == OfType(call.out, "voltage")
        IN  /\ v < 240 =>
                  /\ Len(va) = 1
                  /\ va[1].severity = "critical" /\ va[1].threshold = 240 /\ va[1].value = v
            /\ (240 <= v /\ v < 256) => (Len(va) = 1 /\ va[1].severity = "warning")
            /\ v > 304 =>
                  /\ Len(va) = 1
                  /\ va[1].severity = "critical" /\ va[1].threshold = 304 /\ va[1].value = v
            /\ (256 <= v /\ v <= 304) => va = <<>>

RECURSIVE Crossed(_, _)
\* the 1-based indices of the cells outside [3.0, 3.8], in cell order
Crossed(cells, i) ==
    IF i > Len(cells) THEN <<>>
    ELSE (IF cells[i] < 3000 \/ cells[i] > 3800 THEN <<i>> ELSE <<>>)
         \o Crossed(cells, i + 1)

\* C23: the per-cell alerts are, in cell order, one critical alert for each
\* cell below 3.0 and one warning for each cell above 3.8, with the value,
\* the threshold and the 1-based index, and nothing for the other cells
C23_PerCell ==
    (call.fn = "check_alerts" /\ Has(call.arg, "cells")) =>
        LET cells == call.arg.cells
            idx   == Crossed(cells, 1)
            ca    == OfType(call.out, "cell_voltage")
        IN  /\ Len(ca) = Len(idx)
            /\ \A k \in 1 .. Len(idx) :
                  /\ ca[k].cell = idx[k]
                  /\ ca[k].value = cells[idx[k]]
                  /\ ca[k].severity = IF cells[idx[k]] < 3000 THEN "critical" ELSE "warning"
                  /\ ca[k].threshold = IF cells[idx[k]] < 3000 THEN 3000 ELSE 3800

\* ---- the two read strategies
FragmentFields ==
    {"total_voltage", "current", "current_direction", "soc", "temperatures",
     "temperature", "cells"}

\* C24: on one register snapshot the bulk extraction and the per-register
\* reads, both successful, populate the same fields with the same values
C24_Parity ==
    (call.fn = "read_paths" /\ call.out.bulk.ok /\ call.out.individual.ok) =>
        LET b == call.out.bulk.data
            r == call.out.individual.data
        IN  \A k \in FragmentFields :
              /\ Has(b, k) <=> Has(r, k)
              /\ (Has(b, k) /\ Has(r, k)) => b[k] = r[k]

\* ---- the cache sink
\* C25: a record delivered to the cache is under latest:realtime and has its
\* own entry history:<timestamp>
C25_HistoryWritten ==
    cache_latest # EmptyDict => cache_latest.timestamp \in cache_history

\* ---- order of the messages of the hub
\* C26: every subscriber is sent the messages in the order in which the
\* broadcast operations were invoked (the hub numbers its messages in that
\* order): when a round calls send_text on a socket, every message send_text
\* was called with on that socket before (received, refused or still in its
\* send) is an earlier one
CalledOn(w) ==
    recv[w] \cup refused[w]
        \cup { rounds[b].msg : b \in { x \in DOMAIN rounds : rounds[x].active /\ rounds[x].cur = w } }

C26_InOrder ==
    [][\A c \in DOMAIN rounds :
          (rounds'[c].active /\ (~rounds[c].active \/ rounds'[c].idx # rounds[c].idx)) =>
              \A m \in CalledOn(rounds'[c].cur) \ {rounds'[c].msg} :
                  m.data.timestamp < rounds'[c].msg.data.timestamp]_vars

\* ---- numerical properties
\* C27: estimate_soc is non-decreasing in the voltage, 0 up to 24.0 V, 100
\* from 29.2 V on, and within [0, 100] everywhere (result in tenths)
C27_SocClamp ==
    call.fn = "estimate_soc" =>
        /\ call.out >= 0 /\ call.out <= 1000
        /\ call.arg <= 240 => call.out = 0
        /\ call.arg >= 292 => call.out = 1000
        /\ \A u \in Voltages : u <= call.arg => estimate_soc(u) <= call.out

\* a voltage strictly inside the ramp
C27_Witness ==
    /\ call.fn = "estimate_soc"
    /\ call.out > 0
    /\ call.out < 1000

\* C28: the decoded current c (in tenths) gives the raw value back as
\* 30000 + c; it is negative and charging below 30000, zero and idle at
\* 30000, positive and discharging above, on both read paths
C28_CurrentSymmetry ==
    call.fn = "decode_current" =>
        LET raw == call.arg
            r   == call.out.register
            b   == call.out.bulk
        IN  /\ ZeroCurrent + r.current = raw
            /\ (r.current < 0 /\ r.current_direction = "charging") <=> raw < ZeroCurrent
            /\ (r.current = 0 /\ r.current_direction = "idle") <=> raw = ZeroCurrent
            /\ (r.current > 0 /\ r.current_direction = "discharging") <=> raw > ZeroCurrent
            /\ b.current = r.current
            /\ b.current_direction = r.current_direction

\* a charging current has been decoded
C28_Witness ==
    /\ call.fn = "decode_current"
    /\ call.arg < ZeroCurrent
    /\ call.out.bulk.current < 0

\* ---- the decoder
\* the checks of the decoder in their order, and the error the first failing
\* one stands for ({}: every check passes)
FirstFailing(f) ==
    IF Len(f) < 5 THEN {"too_short"}
    ELSE IF f[1] # DeviceAddr THEN {"wrong_slave"}
    ELSE IF f[2] # 3 THEN {"exception", "wrong_func"}
    ELSE IF Len(f) # 3 + f[3] + 2 THEN {"length"}
    ELSE IF f[Len(f) - 1] + 256 * f[Len(f)]
                # calculate_modbus_crc16(SubSeq(f, 1, Len(f) - 2)) THEN {"crc"}
    ELSE {}

\* C29: the result of decoding is the error of the first failing check and
\* nothing else; a frame that passes every check gives no error
C29_Classified ==
    call.fn = "parse_modbus_response" =>
        LET failing == FirstFailing(call.arg.response)
        IN  IF failing = {} THEN ~Has(call.out, "error")
            ELSE /\ DOMAIN call.out = {"error"}
                 /\ call.out.error \in failing

\* ---- the encoder
\* C30: a request is the eight bytes D2, 03, address high and low, count high
\* and low, CRC low and high; checking its trailing CRC the way the decoder
\* does succeeds; address 0 with count 62 is D2 03 00 00 00 3E D7 B9
C30_Encoded ==
    call.fn = "build_modbus_command" =>
        LET a   == call.arg.register_addr
            n   == call.arg.num_registers
            out == call.out
        IN  /\ Len(out) = 8
            /\ SubSeq(out, 1, 6) = << 210, 3, a \div 256, a % 256, n \div 256, n % 256 >>
            /\ out[7] + 256 * out[8] = calculate_modbus_crc16(SubSeq(out, 1, 6))
            /\ out[Len(out) - 1] + 256 * out[Len(out)]
                    = calculate_modbus_crc16(SubSeq(out, 1, Len(out) - 2))
            /\ (a = 0 /\ n = 62) => out = << 210, 3, 0, 0, 0, 62, 215, 185 >>

C30_Witness ==
    /\ call.fn = "build_modbus_command"
    /\ call.arg = [register_addr |-> 0, num_registers |-> 62]
    /\ call.out[7] = 215
    /\ call.out[8] = 185

\* ---- the first tick
\* C31: when the helper has reported a disconnect, the round retries the
\* direct connect (same attempt); a retry that connects and enables
\* notifications makes connect() return True with no scan in that round; the
\* task then sends the wake command first, the bulk read second, in the
\* first tick and with no sleep in between
C31_RetryThenWake ==
    /\ [][conn_pc = "wait3" => conn_pc' = "retry" /\ attempt' = attempt]_vars
    /\ [][(conn_pc = "retry_notify" /\ client \in notifying' \ notifying) =>
             conn_ret' = "ok" /\ connected' /\ conn_obs'.scan = 0]_vars
    /\ [](\A i \in 1 .. Len(sent) :
             /\ i = 1 => sent[i] = "wake"
             /\ i = 2 => sent[i] = "bulk" /\ tick = 1)
    /\ [][pc' = "sleep" => Len(sent') >= 2]_vars

C31_Witness ==
    /\ conn_obs.helper = 1 /\ conn_obs.retry = 1 /\ conn_obs.scan = 0
    /\ connected
    /\ Len(sent) >= 2
    /\ pc = "emit"
    /\ success

C33_StoredOnce ==
    \A i, j \in 1 .. Len(store) : i # j => store[i] # store[j]

\* C34: a record that has been published to the realtime topic is in the
\* store already
C34_StoredBeforePublished ==
    \A i \in 1 .. Len(published) :
        published[i].topic = "realtime" =>
            \E j \in 1 .. Len(store) : store[j] = published[i]

\* ---- alerts on the total voltage
\* C35: a record with total_voltage below 24.0 V (tenths: 240), 0.0 V
\* included, gets a critical voltage alert with that value and threshold 24.0
C35_LowVoltageAlert ==
    (/\ call.fn = "check_alerts"
     /\ Has(call.arg, "total_voltage")
     /\ call.arg.total_voltage < 240) =>
        \E i \in 1 .. Len(call.out) :
            /\ call.out[i].type = "voltage"
            /\ call.out[i].severity = "critical"
            /\ call.out[i].value = call.arg.total_voltage
            /\ call.out[i].threshold = 240

\* ---- the counters of the session
\* C36: read_count and error_count never decrease; read_count grows by one
\* exactly when read_bms_data returns a record, and last_read_time is set
\* exactly then; a read on a session that is not connected changes no
\* counter and sends nothing
C36_Counters ==
    /\ [][read_count' >= read_count /\ error_count' >= error_count]_vars
    /\ [][(pc # "emit" /\ pc' = "emit") <=> read_count' = read_count + 1]_vars
    /\ [][read_count' # read_count => read_count' = read_count + 1 /\ data' # EmptyDict]_vars
    /\ [][(pc # "emit" /\ pc' = "emit") => last_read_time' = tick']_vars
    /\ [][last_read_time' # last_read_time => pc # "emit" /\ pc' = "emit"]_vars
    /\ [][(pc = "read" /\ ~connected /\ pc' # "read") =>
             /\ UNCHANGED <<read_count, error_count, last_read_time, sent, responses>>
             /\ data' = EmptyDict]_vars

\* a record has been returned after the session had been disconnected once
C36_Witness ==
    /\ read_count = 1
    /\ last_read_time = 1
    /\ pc = "emit"
    /\ teardown >= 3

\* ---- the record read_bms_data returns
\* C37: in every record returned, a soc that is present lies in 0 .. 100 %
\* (tenths: 0 .. 1000) whether it came from the bulk read, the soc register
\* or the voltage estimate, and power is present exactly when total_voltage
\* and current both are, and is then their product
C37_RecordInvariant ==
    (call.fn = "read_bms_data" /\ call.out # EmptyDict) =>
        /\ Has(call.out, "soc") => (call.out.soc >= 0 /\ call.out.soc <= 1000)
        /\ Has(call.out, "power") <=>
              (Has(call.out, "total_voltage") /\ Has(call.out, "current"))
        /\ Has(call.out, "power") =>
              call.out.power = call.out.total_voltage * call.out.current

\* the soc register held more than 100 %, the per-register reads gave voltage
\* and current: soc is the estimate and the power is there
C37_Witness ==
    /\ call.fn = "read_bms_data"
    /\ call.arg.soc = 1001
    /\ call.arg.answered = {"tv", "cur", "soc"}
    /\ Has(call.out, "power")
    /\ call.out.power # 0
    /\ Has(call.out, "soc")
    /\ call.out.soc = estimate_soc(call.out.total_voltage)

\* ---- the hub's two collections
\* C38: under any interleaving of accept, disconnect, personal send,
\* broadcast and heartbeat, active_connections holds no socket twice and the
\* sockets with a client_info entry are those in the list; a disconnect of a
\* socket that is not in the list (the endpoint's finally after a failed
\* send removed it) changes neither collection
C38_HubCollections ==
    /\ [](\A i, j \in 1 .. Len(active_connections) :
             i # j => active_connections[i] # active_connections[j])
    /\ [](client_info = SeqSet(active_connections))
    /\ [][\A w \in Sockets :
             (ep[w] = "recv" /\ ep'[w] = "gone" /\ ~InList(active_connections, w)) =>
                 UNCHANGED <<active_connections, client_info>>]_vars

\* socket w was refused by a round, which removed it, and its endpoint has
\* exited and disconnected it too; the other socket is still a subscriber
C38_Witness ==
    \E w \in Sockets :
        /\ ep[w] = "gone"
        /\ refused[w] # {}
        /\ \A c \in Callers : ~rounds[c].active
        /\ Len(active_connections) = 1
        /\ client_info = SeqSet(active_connections)

\* ---- the system-disconnect helper
\* C39 as stated: every result of auto_disconnect_if_connected has
\* action_taken = disconnect only if initial_connected; success implies
\* final_connected = false; a device that was not connected or not available
\* gives success = true, action_taken = none and no disconnect command; the
\* tool exits 0 exactly when the result's success is true, 130 on an
\* interrupt and 1 otherwise
C39_HelperResult ==
    call.fn = "bms_disconnect" =>
        LET r == call.out.result
        IN  /\ ~call.arg.check_only =>
                  /\ r.action_taken \in {"none", "disconnect"}
                  /\ r.action_taken = "disconnect" => r.initial_connected
                  /\ r.success => ~r.final_connected
                  /\ (~r.initial_connected \/ ~r.available) =>
                        (r.success /\ r.action_taken = "none" /\ r.commands = 0)
            /\ call.out.exit = (IF call.arg.event = "interrupt" THEN 130
                                ELSE IF call.arg.event = "none" /\ r.success THEN 0 ELSE 1)

\* C39, amended: as above, but success = true with action_taken = none is
\* the result when `info` reported the device not available or reported it
\* as not connected; when `info` failed for any other reason the result has
\* initial_connected = false, action_taken = none, no disconnect command and
\* success = false
C39_HelperResultAmended ==
    call.fn = "bms_disconnect" =>
        LET r == call.out.result
        IN  /\ ~call.arg.check_only =>
                  /\ r.action_taken \in {"none", "disconnect"}
                  /\ r.action_taken = "disconnect" => r.initial_connected
                  /\ r.success => ~r.final_connected
                  /\ call.arg.info \in {"not_connected", "not_available"} =>
                        (r.success /\ r.action_taken = "none" /\ r.commands = 0)
                  /\ call.arg.info = "error" =>
                        /\ ~r.success /\ ~r.initial_connected
                        /\ r.action_taken = "none" /\ r.commands = 0
            /\ call.out.exit = (IF call.arg.event = "interrupt" THEN 130
                                ELSE IF call.arg.event = "none" /\ r.success THEN 0 ELSE 1)

\* the device was connected, the second disconnect command released it and
\* the tool exited 0
C39_Witness ==
    /\ call.fn = "bms_disconnect"
    /\ ~call.arg.check_only
    /\ call.out.result.action_taken = "disconnect"
    /\ call.out.result.commands = 2
    /\ call.out.result.success
    /\ call.out.exit = 0
====
